---------------------------- MODULE Spec2Model ----------------------------
(***************************************************************************)
(* A model of the Avro binary codec of lang/py/src/avro/io.py: the leaf    *)
(* encoder and decoder, validate, the schema matcher, and the schema       *)
(* directed reader and writer (io/__init__.py and io/_io.py hold the same  *)
(* code split over two files).                                             *)
(***************************************************************************)
EXTENDS Integers, Sequences, FiniteSets, TLC

VARIABLES
    sink,   \* bytes held by the writer object behind the BinaryEncoder
    src,    \* bytes held by the reader object behind the BinaryDecoder
    pos,    \* reader.tell()
    pc,     \* where the caller is
    reg,    \* write_long's local variable datum while its loop runs
    arg,    \* the argument of the operation in progress or last finished
    res,    \* outcome of the last finished operation
    dw_writers_schema,  \* DatumWriter._writers_schema (0 is None)
    dr_writers_schema,  \* DatumReader._writers_schema (0 is None)
    dr_readers_schema,  \* DatumReader._readers_schema (0 is None)
    cache   \* __match_schema_cache__

\* the slots of the DatumWriter and the DatumReader, and the match cache
slots == <<dw_writers_schema, dr_writers_schema, dr_readers_schema, cache>>

vars == <<sink, src, pos, pc, reg, arg, res, slots>>

(***************************************************************************)
(* Python integers.  An int is held as its two's complement bits, least    *)
(* significant first, the last bit being the sign bit that extends without *)
(* end: 0 is <<0>>, -1 is <<1>>, 1 is <<1,0>>, -2 is <<0,1>>.  The form is  *)
(* kept minimal (the last two bits differ), so equal ints are equal        *)
(* sequences and an int lies in [-2^(w-1), 2^(w-1)-1] iff it has at most w  *)
(* bits.                                                                   *)
(***************************************************************************)
Max(a, b) == IF a >= b THEN a ELSE b

Min(a, b) == IF a <= b THEN a ELSE b

\* the minimal form: the sign bit is not repeated
Norm(x) ==
    SubSeq(x, 1, CHOOSE n \in 1..Len(x) :
                     /\ \A i \in n..Len(x) : x[i] = x[Len(x)]
                     /\ (n = 1 \/ x[n - 1] # x[Len(x)]))

Bit(x, i) == IF i < Len(x) THEN x[i] ELSE x[Len(x)]

IsNeg(x) == x[Len(x)] = 1

Zero == <<0>>

MinusOne == <<1>>

\* x << k
Shl(x, k) == Norm([i \in 1..(Len(x) + k) |-> IF i <= k THEN 0 ELSE x[i - k]])

\* x >> k (arithmetic: the sign bit is kept)
Shr(x, k) == IF k >= Len(x) THEN <<x[Len(x)]>> ELSE SubSeq(x, k + 1, Len(x))

\* x ^ y
Xor(x, y) ==
    Norm([i \in 1..Max(Len(x), Len(y)) |-> (Bit(x, i) + Bit(y, i)) % 2])

\* x & y
And(x, y) ==
    Norm([i \in 1..Max(Len(x), Len(y)) |-> Bit(x, i) * Bit(y, i)])

\* x | y
Or(x, y) ==
    Norm([i \in 1..Max(Len(x), Len(y)) |->
            Bit(x, i) + Bit(y, i) - Bit(x, i) * Bit(y, i)])

\* ~x
Not(x) == [i \in 1..Len(x) |-> 1 - x[i]]

\* x + 1: the bits up to the lowest 0 bit are flipped
Inc(x) ==
    LET Carry(ext, low) ==
            Norm([i \in 1..Len(ext) |->
                     IF i < low THEN 0 ELSE IF i = low THEN 1 ELSE ext[i]])
        Lowest(ext, zeros) ==
            IF zeros = {} THEN <<0>>
            ELSE Carry(ext, CHOOSE i \in zeros : \A j \in zeros : i <= j)
        Extended(ext) == Lowest(ext, {i \in 1..Len(ext) : ext[i] = 0})
    IN Extended(x \o <<x[Len(x)]>>)

\* -x
Neg(x) == Inc(Not(x))

RECURSIVE FromNat(_)
\* the int of a natural number small enough for the model checker
FromNat(n) == IF n = 0 THEN <<0>> ELSE <<n % 2>> \o FromNat(n \div 2)

RECURSIVE ToInt(_)
\* the value of an int of at most 31 bits
ToInt(x) == IF Len(x) = 1 THEN 0 - x[1] ELSE x[1] + 2 * ToInt(Tail(x))

\* an int of at most 31 bits can be handed to the model checker's arithmetic
Small(x) == Len(x) <= 31


(***************************************************************************)
(* Datums.  A Python value is a record [k, v]: k names its Python type and  *)
(* v holds its content.                                                    *)
(***************************************************************************)
PyNone == [k |-> "none", v |-> <<>>]

PyBool(b) == [k |-> "bool", v |-> b]

PyInt(n) == [k |-> "int", v |-> n]

\* a float: the 64 bits of its IEEE-754 binary64 form, least significant first
PyFloat(bits) == [k |-> "float", v |-> bits]

\* a str: its bytes
PyStr(bytes) == [k |-> "str", v |-> bytes]

\* a unicode: its code points
PyUnicode(points) == [k |-> "unicode", v |-> points]

PyList(items) == [k |-> "list", v |-> items]

PyTuple(items) == [k |-> "tuple", v |-> items]

\* a dict: its entries [key, val] in the order iteration gives them
PyDict(entries) == [k |-> "dict", v |-> entries]

Entry(key, val) == [key |-> key, val |-> val]

True == PyBool(TRUE)

False == PyBool(FALSE)

\* the int a bool is in arithmetic
AsInt(d) == IF d.k = "bool" THEN (IF d.v THEN <<1, 0>> ELSE Zero) ELSE d.v

IsNumber(d) == d.k \in {"bool", "int", "float"}

IsIntegral(d) == d.k \in {"bool", "int"}

\* isinstance(d, basestring)
IsBaseString(d) == d.k \in {"str", "unicode"}

IsAscii(bytes) == \A i \in 1..Len(bytes) : bytes[i] < 128

AllZero(bits) == \A i \in 1..Len(bits) : bits[i] = 0

Rep0(n) == [i \in 1..n |-> 0]

(***************************************************************************)
(* Floats.  struct packs a Python float (IEEE-754 binary64) as binary64     *)
(* with '!d' and as binary32, rounded to nearest even, with '!f'.  Bit      *)
(* strings are least significant bit first.                                *)
(***************************************************************************)
RECURSIVE BitsToNat(_)
BitsToNat(bits) ==
    IF bits = <<>> THEN 0 ELSE bits[1] + 2 * BitsToNat(Tail(bits))

RECURSIVE NatToBits(_, _)
NatToBits(n, w) ==
    IF w = 0 THEN <<>> ELSE <<n % 2>> \o NatToBits(n \div 2, w - 1)

\* the int an unsigned bit string stands for
Unsigned(bits) == Norm(bits \o <<0>>)

\* the low w bits of an int
FixedBits(x, w) == [i \in 1..w |-> Bit(x, i)]

MantOf(v) == SubSeq(v, 1, 52)

ExpOf(v) == BitsToNat(SubSeq(v, 53, 63))

SignOf(v) == v[64]

MkDouble(sign, e, mant) == mant \o NatToBits(e, 11) \o <<sign>>

IsNaN(v) == ExpOf(v) = 2047 /\ ~AllZero(MantOf(v))

IsFloatZero(v) == ExpOf(v) = 0 /\ AllZero(MantOf(v))

\* the unsigned bit string S shifted right by k bits, rounded to nearest even
RoundShift(S, k) ==
    LET half == k >= 1 /\ k <= Len(S) /\ S[k] = 1
        rest == \E i \in 1..Min(k - 1, Len(S)) : S[i] = 1
        Round(q) == IF half /\ (rest \/ q[1] = 1) THEN Inc(q) ELSE q
    IN Round(IF k >= Len(S) THEN Zero ELSE Unsigned(SubSeq(S, k + 1, Len(S))))

\* STRUCT_FLOAT.pack of a float: its binary32 bits, or OverflowError when
\* a finite value rounds to infinity
FloatPack(v) ==
    LET m == MantOf(v)
        sg == SignOf(v)
        Rounded(eb, Q) ==
            IF eb - 1 + (Q \div 8388608) >= 255
            THEN [bits |-> <<>>, err |-> "OverflowError"]
            ELSE [bits |-> NatToBits(Q % 8388608, 23)
                               \o NatToBits(eb - 1 + (Q \div 8388608), 8)
                               \o <<sg>>,
                  err |-> ""]
        Scaled(E127, eb) ==
            Rounded(eb, ToInt(RoundShift(m \o <<1>>, 29 + (eb - E127))))
        Packed(e) ==
            IF e = 2047
            THEN [bits |-> (IF AllZero(m) THEN Rep0(23)
                            ELSE SubSeq(m, 30, 51) \o <<1>>)
                               \o NatToBits(255, 8) \o <<sg>>,
                  err |-> ""]
            ELSE IF e = 0
            THEN [bits |-> Rep0(31) \o <<sg>>, err |-> ""]
            ELSE Scaled(e - 1023 + 127, Max(e - 1023 + 127, 1))
    IN Packed(ExpOf(v))

\* STRUCT_FLOAT.unpack: the float a binary32 bit string stands for
FloatUnpack(f) ==
    LET m == SubSeq(f, 1, 23)
        e == BitsToNat(SubSeq(f, 24, 31))
        sg == f[32]
        top == CHOOSE i \in 1..23 : m[i] = 1 /\ \A j \in (i + 1)..23 : m[j] = 0
    IN IF e = 255 THEN MkDouble(sg, 2047, Rep0(29) \o m)
       ELSE IF e = 0 /\ AllZero(m) THEN MkDouble(sg, 0, Rep0(52))
       ELSE IF e = 0
       THEN MkDouble(sg, top - 150 + 1023, Rep0(53 - top) \o SubSeq(m, 1, top - 1))
       ELSE MkDouble(sg, e - 127 + 1023, Rep0(29) \o m)

\* the magnitude of an int as an unsigned bit string ending in its top 1 bit
Magnitude(n) ==
    LET Below(mag) == SubSeq(mag, 1, Len(mag) - 1)
    IN Below(IF IsNeg(n) THEN Neg(n) ELSE n)

\* float(n) for an int n: rounded to nearest even, OverflowError when too big
IntToDouble(n) ==
    LET sg == IF IsNeg(n) THEN 1 ELSE 0
        Packed(S, L, Q) ==
            LET up == L > 53 /\ Len(Q) = 55
                E == IF up THEN L ELSE L - 1
                mant == IF L <= 53 THEN Rep0(53 - L) \o SubSeq(S, 1, L - 1)
                        ELSE IF up THEN Rep0(52)
                        ELSE SubSeq(Q, 1, 52)
            IN IF E >= 1024 THEN [bits |-> <<>>, err |-> "OverflowError"]
               ELSE [bits |-> MkDouble(sg, E + 1023, mant), err |-> ""]
        Rounded(S) == Packed(S, Len(S), RoundShift(S, Len(S) - 53))
    IN IF n = Zero THEN [bits |-> Rep0(64), err |-> ""]
       ELSE Rounded(Magnitude(n))

\* float(n) is exactly n
IntExact(n) ==
    LET Exact(S) == Len(S) <= 53 \/ AllZero(SubSeq(S, 1, Len(S) - 53))
    IN Exact(Magnitude(n))

\* the double struct.pack converts its argument to before packing
ToDouble(d) ==
    IF d.k = "float" THEN [bits |-> d.v, err |-> ""]
    ELSE IF IsIntegral(d) THEN IntToDouble(AsInt(d))
    ELSE [bits |-> <<>>, err |-> "struct.error"]

(***************************************************************************)
(* Python's == on datums, and dict lookup.                                  *)
(***************************************************************************)
NumEq(a, b) ==
    IF IsIntegral(a) /\ IsIntegral(b) THEN AsInt(a) = AsInt(b)
    ELSE IF a.k = "float" /\ b.k = "float"
    THEN /\ ~IsNaN(a.v)
         /\ ~IsNaN(b.v)
         /\ (a.v = b.v \/ (IsFloatZero(a.v) /\ IsFloatZero(b.v)))
    ELSE LET n == IF a.k = "float" THEN AsInt(b) ELSE AsInt(a)
             f == IF a.k = "float" THEN a.v ELSE b.v
             Same(c) == c.err = "" /\ c.bits = f
         IN IF n = Zero THEN IsFloatZero(f)
            ELSE IntExact(n) /\ Same(IntToDouble(n))

\* a str equals a unicode when it is ASCII with the same characters
TextEq(a, b) ==
    /\ a.v = b.v
    /\ (a.k = b.k \/ IsAscii(IF a.k = "str" THEN a.v ELSE b.v))

RECURSIVE PyEq(_, _)
PyEq(a, b) ==
    IF IsNumber(a) /\ IsNumber(b) THEN NumEq(a, b)
    ELSE IF IsBaseString(a) /\ IsBaseString(b) THEN TextEq(a, b)
    ELSE IF a.k # b.k THEN FALSE
    ELSE IF a.k \in {"list", "tuple"}
    THEN /\ Len(a.v) = Len(b.v)
         /\ \A i \in 1..Len(a.v) : PyEq(a.v[i], b.v[i])
    ELSE IF a.k = "dict"
    THEN /\ Len(a.v) = Len(b.v)
         /\ \A i \in 1..Len(a.v) : \E j \in 1..Len(b.v) :
                PyEq(a.v[i].key, b.v[j].key) /\ PyEq(a.v[i].val, b.v[j].val)
    ELSE a.k = "none"

HasKey(d, key) == \E i \in 1..Len(d.v) : PyEq(d.v[i].key, key)

\* d.get(key) of a dict d
DictGet(d, key) ==
    LET At(found) ==
            IF found = {} THEN PyNone ELSE d.v[CHOOSE i \in found : TRUE].val
    IN At({i \in 1..Len(d.v) : PyEq(d.v[i].key, key)})

\* d[key] = val
DictSet(d, key, val) ==
    LET At(found) ==
            IF found = {} THEN PyDict(Append(d.v, Entry(key, val)))
            ELSE PyDict([i \in 1..Len(d.v) |->
                            IF i \in found THEN Entry(d.v[i].key, val)
                            ELSE d.v[i]])
    IN At({i \in 1..Len(d.v) : PyEq(d.v[i].key, key)})

\* bool(d)
Truthy(d) ==
    IF d.k = "none" THEN FALSE
    ELSE IF d.k = "bool" THEN d.v
    ELSE IF d.k = "int" THEN d.v # Zero
    ELSE IF d.k = "float" THEN ~IsFloatZero(d.v)
    ELSE d.v # <<>>

(***************************************************************************)
(* UTF-8.                                                                  *)
(***************************************************************************)
Utf8Char(c) ==
    IF c < 128 THEN <<c>>
    ELSE IF c < 2048 THEN <<192 + (c \div 64), 128 + (c % 64)>>
    ELSE IF c < 65536
    THEN <<224 + (c \div 4096), 128 + ((c \div 64) % 64), 128 + (c % 64)>>
    ELSE <<240 + (c \div 262144), 128 + ((c \div 4096) % 64),
           128 + ((c \div 64) % 64), 128 + (c % 64)>>

RECURSIVE Utf8Encode(_)
\* u.encode("utf-8") of the code points u
Utf8Encode(u) ==
    IF u = <<>> THEN <<>> ELSE Utf8Char(u[1]) \o Utf8Encode(Tail(u))

IsCont(b, i) == i <= Len(b) /\ b[i] >= 128 /\ b[i] < 192

RECURSIVE Utf8Decode(_, _)
\* unicode(b, "utf-8") from byte i on: [ok, v]
Utf8Decode(b, i) ==
    LET c == b[i]
        n == IF c < 128 THEN 1
             ELSE IF c >= 194 /\ c < 224 THEN 2
             ELSE IF c >= 224 /\ c < 240 THEN 3
             ELSE IF c >= 240 /\ c < 245 THEN 4
             ELSE 0
        good == /\ n > 0
                /\ \A j \in 1..(n - 1) : IsCont(b, i + j)
                /\ (c = 224 => b[i + 1] >= 160)
                /\ (c = 240 => b[i + 1] >= 144)
                /\ (c = 244 => b[i + 1] < 144)
        point == IF n = 1 THEN c
                 ELSE IF n = 2 THEN (c - 192) * 64 + (b[i + 1] - 128)
                 ELSE IF n = 3
                 THEN (c - 224) * 4096 + (b[i + 1] - 128) * 64 + (b[i + 2] - 128)
                 ELSE (c - 240) * 262144 + (b[i + 1] - 128) * 4096
                      + (b[i + 2] - 128) * 64 + (b[i + 3] - 128)
        rest == Utf8Decode(b, i + n)
    IN IF i > Len(b) THEN [ok |-> TRUE, v |-> <<>>]
       ELSE IF ~good THEN [ok |-> FALSE, v |-> <<>>]
       ELSE [ok |-> rest.ok, v |-> <<point>> \o rest.v]

(***************************************************************************)
(* BinaryEncoder: leaf values to bytes.  A byte is a number in 0..255.      *)
(***************************************************************************)
X7F == <<1, 1, 1, 1, 1, 1, 1, 0>>

X80 == <<0, 0, 0, 0, 0, 0, 0, 1, 0>>

\* chr(x) for 0 <= x < 256
chr(x) == ToInt(x)

\* ord(b)
ord(b) == FromNat(b)

\* the zig-zag of a 32-bit value, applied to a long
ZigZag_shift31(datum) == Xor(Shl(datum, 1), Shr(datum, 31))

\* datum = (datum << 1) ^ (datum >> 63)
ZigZag(datum) == Xor(Shl(datum, 1), Shr(datum, 63))

\* a loop test that lets eight bits into one byte
write_long_more_8bits(datum) == And(datum, Not(<<1, 1, 1, 1, 1, 1, 1, 1, 0>>)) # Zero

\* the loop test of write_long: (datum & ~0x7F) != 0
write_long_more(datum) == And(datum, Not(X7F)) # Zero

\* the byte one turn of the loop writes: lchr((datum & 0x7f) | 0x80)
write_long_byte(datum) == chr(Or(And(datum, X7F), X80))

RECURSIVE write_long_loop(_)
write_long_loop(datum) ==
    IF write_long_more(datum)
    THEN <<write_long_byte(datum)>> \o write_long_loop(Shr(datum, 7))
    ELSE <<chr(datum)>>

\* the bytes BinaryEncoder.write_long writes for the int n
write_long_bytes(n) == write_long_loop(ZigZag(n))

\* What a write leaves: the bytes it wrote and the error it raised ("" when
\* none).  Bytes written before an error stay written.
WOk(out) == [out |-> out, err |-> ""]

WErr(out, e) == [out |-> out, err |-> e]

\* BinaryEncoder.write_long(datum): << and >> raise TypeError on a datum
\* that is not an int (a bool is one)
write_long(datum) ==
    IF IsIntegral(datum) THEN WOk(write_long_bytes(AsInt(datum)))
    ELSE WErr(<<>>, "TypeError")

write_int(datum) == write_long(datum)

write_null(datum) == WOk(<<>>)

write_boolean(datum) == WOk(<<IF Truthy(datum) THEN 1 ELSE 0>>)

XFF == <<1, 1, 1, 1, 1, 1, 1, 1, 0>>

\* [((bits >> operand) & 0xFF) for operand in shift_list], n shifts
LeBytes(bits, n) == [i \in 1..n |-> ToInt(And(Shr(bits, 8 * (i - 1)), XFF))]

write_float(datum) ==
    LET Packed(f) ==
            IF f.err # "" THEN WErr(<<>>, f.err)
            ELSE WOk(LeBytes(Unsigned(f.bits), 4))
        Converted(c) ==
            IF c.err # "" THEN WErr(<<>>, c.err) ELSE Packed(FloatPack(c.bits))
    IN Converted(ToDouble(datum))

write_double(datum) ==
    LET Converted(c) ==
            IF c.err # "" THEN WErr(<<>>, c.err)
            ELSE WOk(LeBytes(Unsigned(c.bits), 8))
    IN Converted(ToDouble(datum))

\* write_bytes: len(datum), write_long(length), then struct.pack('%ds'),
\* which takes a str only
write_bytes(datum) ==
    IF datum.k = "str"
    THEN WOk(write_long_bytes(FromNat(Len(datum.v))) \o datum.v)
    ELSE IF datum.k \in {"unicode", "list", "tuple", "dict"}
    THEN WErr(write_long_bytes(FromNat(Len(datum.v))), "struct.error")
    ELSE WErr(<<>>, "TypeError")

\* write_utf8: datum.encode("utf-8"); a str is first decoded as ASCII
write_utf8(datum) ==
    IF datum.k = "unicode" THEN write_bytes(PyStr(Utf8Encode(datum.v)))
    ELSE IF datum.k = "str"
    THEN IF IsAscii(datum.v) THEN write_bytes(datum)
         ELSE WErr(<<>>, "UnicodeDecodeError")
    ELSE WErr(<<>>, "AttributeError")

\* BinaryEncoder.write(datum): the sink takes a str
write(datum) ==
    IF datum.k = "str" THEN WOk(datum.v) ELSE WErr(<<>>, "TypeError")

(***************************************************************************)
(* BinaryDecoder: bytes to leaf values.  A decoding step yields             *)
(* [v, pos, err]: the value, the reader's position afterwards and the      *)
(* error raised ("" when none).  reader.read(1) at or past the end returns  *)
(* the empty string, on which ord raises: the Truncated kind of the error   *)
(* taxonomy.                                                               *)
(***************************************************************************)
Ok(v, p) == [v |-> v, pos |-> p, err |-> ""]

Raise(e, p) == [v |-> PyNone, pos |-> p, err |-> e]

\* datum = (n >> 1) ^ -(n & 1)
UnZigZag(n) == Xor(Shr(n, 1), Neg(And(n, <<1, 0>>)))

RECURSIVE read_long_loop(_, _, _, _, _)
read_long_loop(s, p, b, n, shift) ==
    IF b >= 128
    THEN IF p >= Len(s)
         THEN Raise("Truncated", p)
         ELSE read_long_loop(s, p + 1, s[p + 1],
                  Or(n, Shl(FromNat(s[p + 1] % 128), shift)), shift + 7)
    ELSE Ok(PyInt(UnZigZag(n)), p)

\* BinaryDecoder.read_long on source s at position p
read_long(s, p) ==
    IF p >= Len(s)
    THEN Raise("Truncated", p)
    ELSE read_long_loop(s, p + 1, s[p + 1], FromNat(s[p + 1] % 128), 7)

read_int(s, p) == read_long(s, p)

\* the bytes reader.read(n) returns at position p (all that is left when n < 0)
ReaderRead(s, p, n) ==
    IF p >= Len(s) THEN <<>>
    ELSE SubSeq(s, p + 1, IF n < 0 THEN Len(s) ELSE Min(p + n, Len(s)))

\* the count read(n) gets for an int n: one too big for the model checker's
\* arithmetic reads to the end like any count past the end
ReadCount(n) ==
    IF IsNeg(n) THEN 0 - 1 ELSE IF Small(n) THEN ToInt(n) ELSE 1073741824

read_null(s, p) == Ok(PyNone, p)

read_boolean(s, p) ==
    IF p >= Len(s) THEN Raise("Truncated", p) ELSE Ok(PyBool(s[p + 1] = 1), p + 1)

RECURSIVE OrShift(_, _)
\* reduce(operator.or_, [bit << places ...], 0) over the bytes from the i-th
OrShift(data, i) ==
    IF i > Len(data) THEN Zero
    ELSE Or(Shl(FromNat(data[i]), 8 * (i - 1)), OrShift(data, i + 1))

\* read_float: zip stops at the bytes there are, so a short read is no error
read_float(s, p) ==
    LET data == ReaderRead(s, p, 4)
    IN Ok(PyFloat(FloatUnpack(FixedBits(OrShift(data, 1), 32))), p + Len(data))

read_double(s, p) ==
    LET data == ReaderRead(s, p, 8)
    IN Ok(PyFloat(FixedBits(OrShift(data, 1), 64)), p + Len(data))

read_bytes(s, p) ==
    LET Data(r, data) == Ok(PyStr(data), r.pos + Len(data))
        Counted(r) ==
            IF r.err # "" THEN r
            ELSE Data(r, ReaderRead(s, r.pos, ReadCount(r.v.v)))
    IN Counted(read_long(s, p))

read_utf8(s, p) ==
    LET Decoded(r, u) ==
            IF u.ok THEN Ok(PyUnicode(u.v), r.pos) ELSE Raise("Encoding", r.pos)
        Bytes(r) == IF r.err # "" THEN r ELSE Decoded(r, Utf8Decode(r.v.v, 1))
    IN Bytes(read_bytes(s, p))

\* skip(n): reader.seek(reader.tell() + n); a negative target raises
skip(s, p, n) ==
    IF ~Small(n) THEN (IF IsNeg(n) THEN Raise("ValueError", p)
                        ELSE Ok(PyNone, 1073741824))
    ELSE IF p + ToInt(n) < 0 THEN Raise("ValueError", p)
    ELSE Ok(PyNone, p + ToInt(n))

skip_null(s, p) == Ok(PyNone, p)

skip_boolean(s, p) == skip(s, p, FromNat(1))

RECURSIVE skip_long_loop(_, _, _)
skip_long_loop(s, p, b) ==
    IF b >= 128
    THEN IF p >= Len(s) THEN Raise("Truncated", p)
         ELSE skip_long_loop(s, p + 1, s[p + 1])
    ELSE Ok(PyNone, p)

skip_long(s, p) ==
    IF p >= Len(s) THEN Raise("Truncated", p)
    ELSE skip_long_loop(s, p + 1, s[p + 1])

skip_int(s, p) == skip_long(s, p)

skip_float(s, p) == skip(s, p, FromNat(4))

skip_double(s, p) == skip(s, p, FromNat(8))

\* skip_bytes that reads the length and leaves the bytes
skip_bytes_length_only(s, p) ==
    LET Counted(r) == IF r.err # "" THEN r ELSE Ok(PyNone, r.pos)
    IN Counted(read_long(s, p))

skip_bytes(s, p) ==
    LET Counted(r) == IF r.err # "" THEN r ELSE skip(s, r.pos, r.v.v)
    IN Counted(read_long(s, p))

skip_utf8(s, p) == skip_bytes(s, p)

(***************************************************************************)
(* Schemas.  The schema objects the caller holds are the entries of the     *)
(* table Schemas; a schema is named by its index (its identity, what the    *)
(* code tests with "is"), and 0 stands for None.  Two entries may hold the  *)
(* same content.  Nested schemas are given by index.                        *)
(***************************************************************************)
NoSchema ==
    [type |-> "", fullname |-> "", size |-> 0, symbols |-> <<>>, items |-> 0,
     values |-> 0, schemas |-> <<>>, fields |-> <<>>]

Primitive(t) == [NoSchema EXCEPT !.type = t]

FixedSchema(name, size) ==
    [NoSchema EXCEPT !.type = "fixed", !.fullname = name, !.size = size]

EnumSchema(name, symbols) ==
    [NoSchema EXCEPT !.type = "enum", !.fullname = name, !.symbols = symbols]

ArraySchema(items) == [NoSchema EXCEPT !.type = "array", !.items = items]

MapSchema(values) == [NoSchema EXCEPT !.type = "map", !.values = values]

UnionSchema(t, schemas) == [NoSchema EXCEPT !.type = t, !.schemas = schemas]

RecordSchema(t, name, fields) ==
    [NoSchema EXCEPT !.type = t, !.fullname = name, !.fields = fields]

\* a field without a default
Field(name, type) ==
    [name |-> name, type |-> type, has_default |-> FALSE, default |-> PyNone]

\* a field with the default the schema's JSON gives
FieldDefault(name, type, default) ==
    [name |-> name, type |-> type, has_default |-> TRUE, default |-> default]

\* u"..." built from code points
U(points) == PyUnicode(points)

One == <<1, 0>>

Schemas ==
    << Primitive("null"),                                        \* 1
       Primitive("boolean"),                                     \* 2
       Primitive("int"),                                         \* 3
       Primitive("long"),                                        \* 4
       Primitive("float"),                                       \* 5
       Primitive("double"),                                      \* 6
       Primitive("bytes"),                                       \* 7
       Primitive("string"),                                      \* 8
       FixedSchema("F", 2),                                      \* 9
       EnumSchema("E", <<U(<<65>>), U(<<66>>), U(<<67>>)>>),     \* 10 A B C
       EnumSchema("E", <<U(<<65>>), U(<<67>>)>>),                \* 11 A C
       ArraySchema(3),                                           \* 12
       MapSchema(4),                                             \* 13
       UnionSchema("union", <<1, 8>>),                           \* 14
       UnionSchema("union", <<3, 4>>),                           \* 15
       RecordSchema("record", "R", <<Field(U(<<97>>), 3)>>),     \* 16 {a}
       RecordSchema("record", "R",                               \* 17 {a, b="x"}
           <<Field(U(<<97>>), 20),
             FieldDefault(U(<<98>>), 8, U(<<120>>))>>),
       RecordSchema("record", "R",                               \* 18 {a, c}
           <<Field(U(<<97>>), 3), Field(U(<<99>>), 4)>>),
       RecordSchema("record", "R",                               \* 19 {x,a,y,z,b}
           <<Field(U(<<120>>), 7), Field(U(<<97>>), 20),
             Field(U(<<121>>), 12), Field(U(<<122>>), 14),
             Field(U(<<98>>), 8)>>),
       Primitive("int"),                                         \* 20
       ArraySchema(12),                                          \* 21
       RecordSchema("record", "R",                               \* 22
           <<Field(U(<<107>>), 2), Field(U(<<108>>), 4),
             Field(U(<<102>>), 5), Field(U(<<100>>), 6),
             Field(U(<<113>>), 9), Field(U(<<101>>), 10),
             Field(U(<<109>>), 13), Field(U(<<114>>), 16),
             Field(U(<<110>>), 1), Field(U(<<97>>), 3)>>),
       RecordSchema("record", "R",                               \* 23
           <<Field(U(<<97>>), 4),
             FieldDefault(U(<<100>>), 6, PyInt(One)),
             FieldDefault(U(<<117>>), 14, PyNone),
             FieldDefault(U(<<108>>), 12,
                 PyList(<<PyInt(One), PyInt(<<0, 1, 0>>)>>)),
             FieldDefault(U(<<109>>), 13,
                 PyDict(<<Entry(U(<<107>>), PyInt(<<1, 1, 0>>))>>)),
             FieldDefault(U(<<114>>), 17,
                 PyDict(<<Entry(U(<<97>>), PyInt(<<1, 0, 1, 0>>))>>)),
             FieldDefault(U(<<101>>), 10, U(<<65>>)),
             FieldDefault(U(<<116>>), 2, True)>>),
       RecordSchema("record", "Q", <<Field(U(<<97>>), 3)>>),     \* 24
       UnionSchema("error_union", <<1, 8>>),                     \* 25
       RecordSchema("request", "", <<Field(U(<<97>>), 3)>>),     \* 26
       RecordSchema("error", "R", <<Field(U(<<97>>), 3)>>),      \* 27
       FixedSchema("F", 3),                                      \* 28
       FixedSchema("G", 2),                                      \* 29
       EnumSchema("D", <<U(<<65>>), U(<<66>>), U(<<67>>)>>),     \* 30 A B C
       ArraySchema(8),                                           \* 31
       ArraySchema(31),                                          \* 32
       ArraySchema(4),                                           \* 33
       MapSchema(31),                                            \* 34
       MapSchema(12),                                            \* 35
       UnionSchema("union", <<17, 18>>),                         \* 36
       UnionSchema("error_union", <<8, 3>>),                     \* 37
       RecordSchema("request", "",                               \* 38 {z, a}
           <<Field(U(<<122>>), 14), Field(U(<<97>>), 3)>>),
       RecordSchema("error", "Q", <<Field(U(<<97>>), 3)>>),      \* 39
       RecordSchema("error", "R", <<Field(U(<<97>>), 4)>>),      \* 40
       RecordSchema("record", "R",                               \* 41 {b="x", a}
           <<FieldDefault(U(<<98>>), 8, U(<<120>>)),
             Field(U(<<97>>), 20)>>),
       RecordSchema("record", "R",                               \* 42 {c, a}
           <<Field(U(<<99>>), 4), Field(U(<<97>>), 3)>>),
       RecordSchema("record", "R",                               \* 43 {b,z,y,a,x}
           <<Field(U(<<98>>), 8), Field(U(<<122>>), 14),
             Field(U(<<121>>), 12), Field(U(<<97>>), 20),
             Field(U(<<120>>), 7)>>),
       RecordSchema("record", "R",                               \* 44 {t=True, a, e="A"}
           <<FieldDefault(U(<<116>>), 2, True),
             Field(U(<<97>>), 4),
             FieldDefault(U(<<101>>), 10, U(<<65>>))>>),
       RecordSchema("record", "R",                               \* 45 {a, y="x"}
           <<Field(U(<<97>>), 3),
             FieldDefault(U(<<121>>), 7, U(<<120>>))>> ) >>

SchemaIds == 1..Len(Schemas)

(***************************************************************************)
(* validate: is the datum an instance of the schema.                        *)
(***************************************************************************)
LONG_BITS == 64

INT_BITS == 32

\* LONG_MIN_VALUE <= n <= LONG_MAX_VALUE
InLong(n) == Len(n) <= LONG_BITS

\* INT_MIN_VALUE <= n <= INT_MAX_VALUE
InInt(n) == Len(n) <= INT_BITS

IsRecordType(t) == t \in {"record", "error", "request"}

IsUnionType(t) == t \in {"union", "error_union"}

RECURSIVE validate(_, _)
validate(expected_schema, datum) ==
    LET Instance(S, t) ==
          IF t = "null" THEN datum.k = "none"
       ELSE IF t = "boolean" THEN datum.k = "bool"
       ELSE IF t = "string" THEN IsBaseString(datum)
       ELSE IF t = "bytes" THEN datum.k = "str"
       ELSE IF t = "int" THEN IsIntegral(datum) /\ InInt(AsInt(datum))
       ELSE IF t = "long" THEN IsIntegral(datum) /\ InLong(AsInt(datum))
       ELSE IF t \in {"float", "double"} THEN IsNumber(datum)
       ELSE IF t = "fixed" THEN datum.k = "str" /\ Len(datum.v) = S.size
       ELSE IF t = "enum"
       THEN \E i \in 1..Len(S.symbols) : PyEq(S.symbols[i], datum)
       ELSE IF t = "array"
       THEN /\ datum.k \in {"list", "tuple"}
            /\ \A i \in 1..Len(datum.v) : validate(S.items, datum.v[i])
       ELSE IF t = "map"
       THEN /\ datum.k = "dict"
            /\ \A i \in 1..Len(datum.v) : IsBaseString(datum.v[i].key)
            /\ \A i \in 1..Len(datum.v) : validate(S.values, datum.v[i].val)
       ELSE IF IsUnionType(t)
       THEN \E i \in 1..Len(S.schemas) : validate(S.schemas[i], datum)
       ELSE /\ datum.k = "dict"
            /\ \A i \in 1..Len(S.fields) :
                   validate(S.fields[i].type, DictGet(datum, S.fields[i].name))
    IN Instance(Schemas[expected_schema], Schemas[expected_schema].type)

(***************************************************************************)
(* Writing a datum.  A writing step yields [out, err]: the bytes it put in  *)
(* the sink (those written before an error stay written) and the error it   *)
(* raised.                                                                 *)
(***************************************************************************)
\* one step, then the rest when the step raised nothing
Then(r, rest) ==
    IF r.err # "" THEN r ELSE [out |-> r.out \o rest.out, err |-> rest.err]

HasLen(datum) == datum.k \in {"str", "unicode", "list", "tuple", "dict"}

\* what "for item in datum" goes through
Iter(datum) ==
    IF datum.k = "dict" THEN [i \in 1..Len(datum.v) |-> datum.v[i].key]
    ELSE IF datum.k = "str" THEN [i \in 1..Len(datum.v) |-> PyStr(<<datum.v[i]>>)]
    ELSE IF datum.k = "unicode"
    THEN [i \in 1..Len(datum.v) |-> PyUnicode(<<datum.v[i]>>)]
    ELSE datum.v

\* symbols.index(datum), zero-based; -1 when the datum is no symbol
IndexOf(symbols, datum) ==
    LET First(found) ==
            IF found = {} THEN 0 - 1
            ELSE (CHOOSE i \in found : \A j \in found : i <= j) - 1
    IN First({i \in 1..Len(symbols) : PyEq(symbols[i], datum)})

RECURSIVE write_data(_, _)
RECURSIVE write_items(_, _, _)
RECURSIVE write_entries(_, _, _)
RECURSIVE write_fields(_, _, _)
RECURSIVE write_union(_, _)

write_fixed(writers_schema, datum) == write(datum)

write_enum(writers_schema, datum) ==
    LET Indexed(index_of_datum) ==
            IF index_of_datum < 0 THEN WErr(<<>>, "ValueError")
            ELSE write_int(PyInt(FromNat(index_of_datum)))
    IN Indexed(IndexOf(Schemas[writers_schema].symbols, datum))

\* for item in datum: write_data(items, item, encoder), from the i-th
write_items(items, seq, i) ==
    IF i > Len(seq) THEN WOk(<<>>)
    ELSE Then(write_data(items, seq[i]), write_items(items, seq, i + 1))

\* write_array with the count written for an empty array too
write_array_always_count(writers_schema, datum) ==
    IF ~HasLen(datum) THEN WErr(<<>>, "TypeError")
    ELSE Then(write_long(PyInt(FromNat(Len(datum.v)))),
              Then(write_items(Schemas[writers_schema].items, Iter(datum), 1),
                   write_long(PyInt(Zero))))

write_array(writers_schema, datum) ==
    IF ~HasLen(datum) THEN WErr(<<>>, "TypeError")
    ELSE IF Len(datum.v) > 0
    THEN Then(write_long(PyInt(FromNat(Len(datum.v)))),
              Then(write_items(Schemas[writers_schema].items, Iter(datum), 1),
                   write_long(PyInt(Zero))))
    ELSE write_long(PyInt(Zero))

\* for key, val in datum.iteritems(), from the i-th entry
write_entries(values, entries, i) ==
    IF i > Len(entries) THEN WOk(<<>>)
    ELSE Then(write_utf8(entries[i].key),
              Then(write_data(values, entries[i].val),
                   write_entries(values, entries, i + 1)))

write_map(writers_schema, datum) ==
    IF ~HasLen(datum) THEN WErr(<<>>, "TypeError")
    ELSE IF Len(datum.v) > 0
    THEN Then(write_long(PyInt(FromNat(Len(datum.v)))),
              IF datum.k # "dict" THEN WErr(<<>>, "AttributeError")
              ELSE Then(write_entries(Schemas[writers_schema].values,
                                      datum.v, 1),
                        write_long(PyInt(Zero))))
    ELSE write_long(PyInt(Zero))

\* write_union's loop without its break: the last branch that validates
SelectBranch_last(schemas, datum) ==
    LET Last(valid) ==
            IF valid = {} THEN 0 - 1
            ELSE (CHOOSE i \in valid : \A j \in valid : i >= j) - 1
    IN Last({i \in 1..Len(schemas) : validate(schemas[i], datum)})

\* the zero-based position of the first branch the datum validates against;
\* -1 when there is none
SelectBranch(schemas, datum) ==
    LET First(valid) ==
            IF valid = {} THEN 0 - 1
            ELSE (CHOOSE i \in valid : \A j \in valid : i <= j) - 1
    IN First({i \in 1..Len(schemas) : validate(schemas[i], datum)})

write_union(writers_schema, datum) ==
    LET Selected(schemas, index_of_schema) ==
            IF index_of_schema < 0 THEN WErr(<<>>, "AvroType")
            ELSE Then(write_long(PyInt(FromNat(index_of_schema))),
                      write_data(schemas[index_of_schema + 1], datum))
        Among(schemas) == Selected(schemas, SelectBranch(schemas, datum))
    IN Among(Schemas[writers_schema].schemas)

\* for field in fields: write_data(field.type, datum.get(field.name)),
\* from the i-th field
write_fields(fields, datum, i) ==
    IF i > Len(fields) THEN WOk(<<>>)
    ELSE IF datum.k # "dict" THEN WErr(<<>>, "AttributeError")
    ELSE Then(write_data(fields[i].type, DictGet(datum, fields[i].name)),
              write_fields(fields, datum, i + 1))

write_record(writers_schema, datum) ==
    write_fields(Schemas[writers_schema].fields, datum, 1)

\* __datum_to_encoder__[writers_schema.type]
datum_to_encoder(t, writers_schema, datum) ==
       IF t = "null" THEN write_null(datum)
       ELSE IF t = "boolean" THEN write_boolean(datum)
       ELSE IF t = "string" THEN write_utf8(datum)
       ELSE IF t = "int" THEN write_int(datum)
       ELSE IF t = "long" THEN write_long(datum)
       ELSE IF t = "float" THEN write_float(datum)
       ELSE IF t = "double" THEN write_double(datum)
       ELSE IF t = "bytes" THEN write_bytes(datum)
       ELSE IF t = "fixed" THEN write_fixed(writers_schema, datum)
       ELSE IF t = "enum" THEN write_enum(writers_schema, datum)
       ELSE IF t = "array" THEN write_array(writers_schema, datum)
       ELSE IF t = "map" THEN write_map(writers_schema, datum)
       ELSE IF IsUnionType(t) THEN write_union(writers_schema, datum)
       ELSE write_record(writers_schema, datum)

\* write_data: whatever the encoder raises is raised again as the
\* AvroException 'Unknown type'
write_data(writers_schema, datum) ==
    LET Wrapped(r) == IF r.err # "" THEN WErr(r.out, "AvroException") ELSE r
    IN Wrapped(datum_to_encoder(Schemas[writers_schema].type,
                                writers_schema, datum))

(***************************************************************************)
(* Schema matching.  The module's cache __match_schema_cache__ is a set of  *)
(* entries <<writer, reader, value>>, one per key: its keys are pairs of    *)
(* schema objects.                                                         *)
(***************************************************************************)
MATCH_SCHEMA_CACHE_MAX_LENGTH == 20

\* the table with fixed compared by fullname alone
same_type_to_match_schema_fullname_only(t, writers_schema, readers_schema) ==
    LET Same(W, R, table) ==
            IF t \in {"record", "error", "enum", "fixed"}
            THEN W.fullname = R.fullname
            ELSE IF t = "map" THEN table[W.values].type = table[R.values].type
            ELSE IF t = "array" THEN table[W.items].type = table[R.items].type
            ELSE TRUE
    IN Same(Schemas[writers_schema], Schemas[readers_schema], Schemas)

\* __same_type_to_match_schema__[t](writers_schema, readers_schema)
same_type_to_match_schema(t, writers_schema, readers_schema) ==
    LET Same(W, R, table) ==
            IF t \in {"record", "error", "enum"} THEN W.fullname = R.fullname
            ELSE IF t = "fixed" THEN W.fullname = R.fullname /\ W.size = R.size
            ELSE IF t = "map" THEN table[W.values].type = table[R.values].type
            ELSE IF t = "array" THEN table[W.items].type = table[R.items].type
            ELSE TRUE
    IN Same(Schemas[writers_schema], Schemas[readers_schema], Schemas)

\* the promotions without those from int to the floating types
valid_schema_promotion_integral ==
    { <<"int", "long">>, <<"long", "float">>, <<"long", "double">>,
      <<"float", "double">> }

valid_schema_promotion ==
    { <<"int", "long">>, <<"int", "float">>, <<"int", "double">>,
      <<"long", "float">>, <<"long", "double">>, <<"float", "double">> }

\* the rule with the promotions allowed in both directions
match_schema_uncached_symmetric(writers_schema, readers_schema) ==
    LET Match(w_type, r_type) ==
            IF w_type = r_type
            THEN same_type_to_match_schema(w_type, writers_schema,
                                           readers_schema)
            ELSE IF IsUnionType(w_type) \/ IsUnionType(r_type) THEN TRUE
            ELSE \/ <<w_type, r_type>> \in valid_schema_promotion
                 \/ <<r_type, w_type>> \in valid_schema_promotion
    IN Match(Schemas[writers_schema].type, Schemas[readers_schema].type)

\* __match_schema__(writers_schema, readers_schema)
match_schema_uncached(writers_schema, readers_schema) ==
    LET Match(w_type, r_type) ==
            IF w_type = r_type
            THEN same_type_to_match_schema(w_type, writers_schema,
                                           readers_schema)
            ELSE IF IsUnionType(w_type) \/ IsUnionType(r_type) THEN TRUE
            ELSE <<w_type, r_type>> \in valid_schema_promotion
    IN Match(Schemas[writers_schema].type, Schemas[readers_schema].type)

InCache(c, writers_schema, readers_schema) ==
    \E e \in c : e[1] = writers_schema /\ e[2] = readers_schema

\* match_schema without the clear of a cache that is full
match_schema_never_cleared(writers_schema, readers_schema, c) ==
    IF writers_schema = readers_schema THEN [value |-> TRUE, cache |-> c]
    ELSE IF InCache(c, writers_schema, readers_schema)
    THEN [value |-> (CHOOSE e \in c : e[1] = writers_schema
                                      /\ e[2] = readers_schema)[3],
          cache |-> c]
    ELSE [value |-> match_schema_uncached(writers_schema, readers_schema),
          cache |-> c \cup {<<writers_schema, readers_schema,
                               match_schema_uncached(writers_schema,
                                                     readers_schema)>>}]

\* match_schema with a cache whose key is the writer's schema alone
match_schema_keyed_by_writer(writers_schema, readers_schema, c) ==
    IF writers_schema = readers_schema THEN [value |-> TRUE, cache |-> c]
    ELSE IF \E e \in c : e[1] = writers_schema
    THEN [value |-> (CHOOSE e \in c : e[1] = writers_schema)[3], cache |-> c]
    ELSE [value |-> match_schema_uncached(writers_schema, readers_schema),
          cache |-> (IF Cardinality(c) > MATCH_SCHEMA_CACHE_MAX_LENGTH
                     THEN {} ELSE c)
                    \cup {<<writers_schema, readers_schema,
                            match_schema_uncached(writers_schema,
                                                  readers_schema)>>}]

\* match_schema with the cache c: the value and the cache afterwards
match_schema(writers_schema, readers_schema, c) ==
    IF writers_schema = readers_schema THEN [value |-> TRUE, cache |-> c]
    ELSE IF InCache(c, writers_schema, readers_schema)
    THEN [value |-> (CHOOSE e \in c : e[1] = writers_schema
                                      /\ e[2] = readers_schema)[3],
          cache |-> c]
    ELSE LET kept == IF Cardinality(c) > MATCH_SCHEMA_CACHE_MAX_LENGTH
                     THEN {} ELSE c
             Stored(value) ==
                 [value |-> value,
                  cache |-> kept \cup {<<writers_schema, readers_schema,
                                         value>>}]
         IN Stored(match_schema_uncached(writers_schema, readers_schema))

(***************************************************************************)
(* Skipping a datum of the writer's schema: [v, pos, err] as for the leaf   *)
(* decoder.                                                                *)
(***************************************************************************)
RECURSIVE skip_data(_, _, _)
RECURSIVE skip_items(_, _, _, _)
RECURSIVE skip_entries(_, _, _, _)
RECURSIVE skip_array_blocks(_, _, _, _)
RECURSIVE skip_map_blocks(_, _, _, _)
RECURSIVE skip_fields(_, _, _, _)

\* range(n) of a count too big for a list raises before any item is read
RangeFails(n) == ~Small(n)

\* len(range(n))
RangeLen(n) == IF IsNeg(n) THEN 0 ELSE ToInt(n)

skip_fixed(writers_schema, s, p) ==
    skip(s, p, FromNat(Schemas[writers_schema].size))

skip_enum(writers_schema, s, p) == skip_int(s, p)

\* for i in range(n): skip_data(items, decoder)
skip_items(items, s, p, n) ==
    IF n = 0 THEN Ok(PyNone, p)
    ELSE LET Rest(r) ==
                 IF r.err # "" THEN r ELSE skip_items(items, s, r.pos, n - 1)
         IN Rest(skip_data(items, s, p))

\* the loop of skip_array that reads the size of a block of negative count
\* and does not jump over the block
RECURSIVE skip_array_blocks_size_unused(_, _, _, _)
skip_array_blocks_size_unused(items, s, p, block_count) ==
    IF block_count = Zero THEN Ok(PyNone, p)
    ELSE LET Sized(size) ==
                 IF size.err # "" THEN size ELSE Ok(PyNone, size.pos)
             Again(next) ==
                 IF next.err # "" THEN next
                 ELSE skip_array_blocks_size_unused(items, s, next.pos,
                                                    next.v.v)
             Block(body) ==
                 IF body.err # "" THEN body ELSE Again(read_long(s, body.pos))
         IN Block(IF IsNeg(block_count) THEN Sized(read_long(s, p))
                  ELSE IF RangeFails(block_count) THEN Raise("MemoryError", p)
                  ELSE skip_items(items, s, p, RangeLen(block_count)))

\* the while loop of skip_array, entered with block_count read at p
skip_array_blocks(items, s, p, block_count) ==
    IF block_count = Zero THEN Ok(PyNone, p)
    ELSE LET Sized(size) ==
                 IF size.err # "" THEN size ELSE skip(s, size.pos, size.v.v)
             Again(next) ==
                 IF next.err # "" THEN next
                 ELSE skip_array_blocks(items, s, next.pos, next.v.v)
             Block(body) ==
                 IF body.err # "" THEN body ELSE Again(read_long(s, body.pos))
         IN Block(IF IsNeg(block_count) THEN Sized(read_long(s, p))
                  ELSE IF RangeFails(block_count) THEN Raise("MemoryError", p)
                  ELSE skip_items(items, s, p, RangeLen(block_count)))

skip_array(writers_schema, s, p) ==
    LET Blocks(block_count) ==
            IF block_count.err # "" THEN block_count
            ELSE skip_array_blocks(Schemas[writers_schema].items, s,
                                block_count.pos, block_count.v.v)
    IN Blocks(read_long(s, p))

\* for i in range(n): skip_utf8(); skip_data(values, decoder)
skip_entries(values, s, p, n) ==
    IF n = 0 THEN Ok(PyNone, p)
    ELSE LET Rest(r) ==
                 IF r.err # "" THEN r ELSE skip_entries(values, s, r.pos, n - 1)
             Key(k) ==
                 IF k.err # "" THEN k ELSE Rest(skip_data(values, s, k.pos))
         IN Key(skip_utf8(s, p))

skip_map_blocks(values, s, p, block_count) ==
    IF block_count = Zero THEN Ok(PyNone, p)
    ELSE LET Sized(size) ==
                 IF size.err # "" THEN size ELSE skip(s, size.pos, size.v.v)
             Again(next) ==
                 IF next.err # "" THEN next
                 ELSE skip_map_blocks(values, s, next.pos, next.v.v)
             Block(body) ==
                 IF body.err # "" THEN body ELSE Again(read_long(s, body.pos))
         IN Block(IF IsNeg(block_count) THEN Sized(read_long(s, p))
                  ELSE IF RangeFails(block_count) THEN Raise("MemoryError", p)
                  ELSE skip_entries(values, s, p, RangeLen(block_count)))

skip_map(writers_schema, s, p) ==
    LET Blocks(block_count) ==
            IF block_count.err # "" THEN block_count
            ELSE skip_map_blocks(Schemas[writers_schema].values, s,
                                block_count.pos, block_count.v.v)
    IN Blocks(read_long(s, p))

\* schemas[index] for an int index: the position in 1..Len, or 0 when
\* the index is out of range (an index below zero counts from the end)
ListIndex(len, index) ==
    IF ~Small(index) THEN 0
    ELSE LET At(i) ==
                 IF i >= 0 THEN (IF i < len THEN i + 1 ELSE 0)
                 ELSE (IF len + i >= 0 THEN len + i + 1 ELSE 0)
         IN At(ToInt(index))

\* what raise SchemaResolutionException(fail_msg, writers_schema,
\* readers_schema) raises: the constructor parses str() of both schemas as
\* JSON before it looks at either, and str(None) is not JSON
SchemaResolutionException(writers_schema, readers_schema) ==
    IF writers_schema = 0 \/ readers_schema = 0 THEN "ValueError"
    ELSE "SchemaResolution"

\* skip_union raises SchemaResolutionException(fail_msg, writers_schema)
skip_union(writers_schema, s, p) ==
    LET Branch(schemas, index_of_schema, i) ==
            IF i = 0
            THEN Raise(SchemaResolutionException(writers_schema, 0),
                       index_of_schema.pos)
            ELSE skip_data(schemas[i], s, index_of_schema.pos)
        Indexed(schemas, index_of_schema) ==
            IF index_of_schema.err # "" THEN index_of_schema
            ELSE Branch(schemas, index_of_schema,
                        ListIndex(Len(schemas), index_of_schema.v.v))
    IN Indexed(Schemas[writers_schema].schemas, read_long(s, p))

\* for field in fields: skip_data(field.type, decoder), from the i-th
skip_fields(fields, s, p, i) ==
    IF i > Len(fields) THEN Ok(PyNone, p)
    ELSE LET Rest(r) ==
                 IF r.err # "" THEN r ELSE skip_fields(fields, s, r.pos, i + 1)
         IN Rest(skip_data(fields[i].type, s, p))

skip_record(writers_schema, s, p) ==
    skip_fields(Schemas[writers_schema].fields, s, p, 1)

\* __type_to_skipper__[t]
type_to_skipper(t, writers_schema, s, p) ==
       IF t = "null" THEN skip_null(s, p)
       ELSE IF t = "boolean" THEN skip_boolean(s, p)
       ELSE IF t = "string" THEN skip_utf8(s, p)
       ELSE IF t = "int" THEN skip_int(s, p)
       ELSE IF t = "long" THEN skip_long(s, p)
       ELSE IF t = "float" THEN skip_float(s, p)
       ELSE IF t = "double" THEN skip_double(s, p)
       ELSE IF t = "bytes" THEN skip_bytes(s, p)
       ELSE IF t = "fixed" THEN skip_fixed(writers_schema, s, p)
       ELSE IF t = "enum" THEN skip_enum(writers_schema, s, p)
       ELSE IF t = "array" THEN skip_array(writers_schema, s, p)
       ELSE IF t = "map" THEN skip_map(writers_schema, s, p)
       ELSE IF IsUnionType(t) THEN skip_union(writers_schema, s, p)
       ELSE skip_record(writers_schema, s, p)

skip_data(writers_schema, s, p) ==
    type_to_skipper(Schemas[writers_schema].type, writers_schema, s, p)

(***************************************************************************)
(* Reading a datum of the writer's schema as the reader's schema.  A        *)
(* reading step yields [v, pos, err, cache]: the leaf decoder's result and  *)
(* the match cache afterwards.                                             *)
(***************************************************************************)
\* a leaf decoder's result r, with the cache c left as it was
WithCache(r, c) == [v |-> r.v, pos |-> r.pos, err |-> r.err, cache |-> c]

ROk(v, p, c) == [v |-> v, pos |-> p, err |-> "", cache |-> c]

RRaise(e, p, c) == [v |-> PyNone, pos |-> p, err |-> e, cache |-> c]

RECURSIVE read_data(_, _, _, _, _)
RECURSIVE read_items(_, _, _, _, _, _, _)
RECURSIVE read_array_blocks(_, _, _, _, _, _, _)
RECURSIVE read_entries(_, _, _, _, _, _, _)
RECURSIVE read_map_blocks(_, _, _, _, _, _, _)
RECURSIVE read_default_value(_, _)
RECURSIVE read_default_items(_, _, _)
RECURSIVE read_default_entries(_, _, _)
RECURSIVE read_default_fields(_, _, _)
RECURSIVE read_same_fields(_, _, _, _, _, _)
RECURSIVE read_writers_fields(_, _, _, _, _, _, _)
RECURSIVE fill_defaults(_, _, _, _)
RECURSIVE first_match(_, _, _, _)

read_fixed(writers_schema, readers_schema, s, p, c) ==
    LET Data(data) == ROk(PyStr(data), p + Len(data), c)
    IN Data(ReaderRead(s, p, Schemas[writers_schema].size))

\* read_enum that takes the symbol at the index from the reader's symbols
read_enum_readers_symbol(writers_schema, readers_schema, s, p, c) ==
    LET Symbol(symbols, index_of_symbol, i) ==
            IF i = 0 THEN RRaise("SchemaResolution", index_of_symbol.pos, c)
            ELSE ROk(symbols[i], index_of_symbol.pos, c)
        Indexed(symbols, index_of_symbol) ==
            IF index_of_symbol.err # "" THEN WithCache(index_of_symbol, c)
            ELSE Symbol(symbols, index_of_symbol,
                        ListIndex(Len(symbols), index_of_symbol.v.v))
    IN Indexed(Schemas[readers_schema].symbols, read_int(s, p))

read_enum(writers_schema, readers_schema, s, p, c) ==
    LET Symbol(symbols, index_of_symbol, n, i) ==
            IF ~IsNeg(n) /\ (~Small(n) \/ ToInt(n) >= Len(symbols))
            THEN RRaise("SchemaResolution", index_of_symbol.pos, c)
            ELSE IF i = 0 THEN RRaise("IndexError", index_of_symbol.pos, c)
            ELSE IF IndexOf(Schemas[readers_schema].symbols, symbols[i]) < 0
            THEN RRaise("SchemaResolution", index_of_symbol.pos, c)
            ELSE ROk(symbols[i], index_of_symbol.pos, c)
        Indexed(symbols, index_of_symbol) ==
            IF index_of_symbol.err # "" THEN WithCache(index_of_symbol, c)
            ELSE Symbol(symbols, index_of_symbol, index_of_symbol.v.v,
                        ListIndex(Len(symbols), index_of_symbol.v.v))
    IN Indexed(Schemas[writers_schema].symbols, read_int(s, p))

\* [read_data(items, items', decoder) for i in range(n)] appended to acc
read_items(w_items, r_items, s, p, c, n, acc) ==
    IF n = 0 THEN ROk(PyList(acc), p, c)
    ELSE LET Rest(r) ==
                 IF r.err # "" THEN r
                 ELSE read_items(w_items, r_items, s, r.pos, r.cache, n - 1,
                                 Append(acc, r.v))
         IN Rest(read_data(w_items, r_items, s, p, c))

\* the while loop of read_array, entered with block_count read at p
read_array_blocks(w_items, r_items, s, p, c, block_count, acc) ==
    IF block_count = Zero THEN ROk(PyList(acc), p, c)
    ELSE LET Items(count, from) ==
                 IF RangeFails(count) THEN RRaise("MemoryError", from, c)
                 ELSE read_items(w_items, r_items, s, from, c,
                                 RangeLen(count), acc)
             Sized(size) ==
                 IF size.err # "" THEN WithCache(size, c)
                 ELSE Items(Neg(block_count), size.pos)
             Again(body, next) ==
                 IF next.err # "" THEN WithCache(next, body.cache)
                 ELSE read_array_blocks(w_items, r_items, s, next.pos,
                                        body.cache, next.v.v, body.v.v)
             Block(body) ==
                 IF body.err # "" THEN body
                 ELSE Again(body, read_long(s, body.pos))
         IN Block(IF IsNeg(block_count) THEN Sized(read_long(s, p))
                  ELSE Items(block_count, p))

read_array(writers_schema, readers_schema, s, p, c) ==
    LET Blocks(block_count) ==
            IF block_count.err # "" THEN WithCache(block_count, c)
            ELSE read_array_blocks(Schemas[writers_schema].items,
                                   Schemas[readers_schema].items, s,
                                   block_count.pos, c, block_count.v.v, <<>>)
    IN Blocks(read_long(s, p))

\* [(read_utf8(), read_data(values, values', decoder)) for i in range(n)],
\* the pairs appended to acc
read_entries(w_values, r_values, s, p, c, n, acc) ==
    IF n = 0 THEN ROk(acc, p, c)
    ELSE LET Rest(k, r) ==
                 IF r.err # "" THEN r
                 ELSE read_entries(w_values, r_values, s, r.pos, r.cache,
                                   n - 1, Append(acc, Entry(k.v, r.v)))
             Key(k) ==
                 IF k.err # "" THEN WithCache(k, c)
                 ELSE Rest(k, read_data(w_values, r_values, s, k.pos, c))
         IN Key(read_utf8(s, p))

RECURSIVE DictUpdate(_, _, _)
\* d.update(pairs), from the i-th pair
DictUpdate(d, pairs, i) ==
    IF i > Len(pairs) THEN d
    ELSE DictUpdate(DictSet(d, pairs[i].key, pairs[i].val), pairs, i + 1)

read_map_blocks(w_values, r_values, s, p, c, block_count, acc) ==
    IF block_count = Zero THEN ROk(acc, p, c)
    ELSE LET Entries(count, from) ==
                 IF RangeFails(count) THEN RRaise("MemoryError", from, c)
                 ELSE read_entries(w_values, r_values, s, from, c,
                                   RangeLen(count), <<>>)
             Sized(size) ==
                 IF size.err # "" THEN WithCache(size, c)
                 ELSE Entries(Neg(block_count), size.pos)
             Again(body, next) ==
                 IF next.err # "" THEN WithCache(next, body.cache)
                 ELSE read_map_blocks(w_values, r_values, s, next.pos,
                                      body.cache, next.v.v,
                                      DictUpdate(acc, body.v, 1))
             Block(body) ==
                 IF body.err # "" THEN body
                 ELSE Again(body, read_long(s, body.pos))
         IN Block(IF IsNeg(block_count) THEN Sized(read_long(s, p))
                  ELSE Entries(block_count, p))

read_map(writers_schema, readers_schema, s, p, c) ==
    LET Blocks(block_count) ==
            IF block_count.err # "" THEN WithCache(block_count, c)
            ELSE read_map_blocks(Schemas[writers_schema].values,
                                 Schemas[readers_schema].values, s,
                                 block_count.pos, c, block_count.v.v,
                                 PyDict(<<>>))
    IN Blocks(read_long(s, p))

\* int(v) of a float: truncation towards zero
FloatTrunc(v) ==
    LET Signed(mag) ==
            [v |-> PyInt(IF SignOf(v) = 1 THEN Neg(mag) ELSE mag), err |-> ""]
        Scaled(e, M) ==
            Signed(IF e >= 1075 THEN Shl(M, e - 1075) ELSE Shr(M, 1075 - e))
        Truncated(e) ==
            IF e = 2047
            THEN [v |-> PyNone,
                  err |-> IF AllZero(MantOf(v)) THEN "OverflowError"
                          ELSE "ValueError"]
            ELSE IF e < 1023 THEN [v |-> PyInt(Zero), err |-> ""]
            ELSE Scaled(e, Unsigned(MantOf(v) \o <<1>>))
    IN Truncated(ExpOf(v))

\* int(default_value), long(default_value); text that is no numeral
\* raises ValueError
ToPyInt(d) ==
    IF IsIntegral(d) THEN [v |-> PyInt(AsInt(d)), err |-> ""]
    ELSE IF d.k = "float" THEN FloatTrunc(d.v)
    ELSE IF IsBaseString(d) THEN [v |-> PyNone, err |-> "ValueError"]
    ELSE [v |-> PyNone, err |-> "TypeError"]

\* float(default_value)
ToPyFloat(d) ==
    IF IsNumber(d)
    THEN LET Converted(c) ==
                 IF c.err # "" THEN [v |-> PyNone, err |-> c.err]
                 ELSE [v |-> PyFloat(c.bits), err |-> ""]
         IN Converted(ToDouble(d))
    ELSE IF IsBaseString(d) THEN [v |-> PyNone, err |-> "ValueError"]
    ELSE [v |-> PyNone, err |-> "TypeError"]

\* [read_default_value(items, json_val) for json_val in seq], from the i-th
read_default_items(items, seq, i) ==
    IF i > Len(seq) THEN [v |-> <<>>, err |-> ""]
    ELSE LET Rest(r, rest) ==
                 IF rest.err # "" THEN rest
                 ELSE [v |-> <<r.v>> \o rest.v, err |-> ""]
             First(r) ==
                 IF r.err # "" THEN r
                 ELSE Rest(r, read_default_items(items, seq, i + 1))
         IN First(read_default_value(items, seq[i]))

\* dict([(key, read_default_value(values, json_val)) ...]) as a dict,
\* from the i-th entry, added to acc
read_default_entries(values, entries, i) ==
    IF i = 0 THEN [v |-> PyDict(<<>>), err |-> ""]
    ELSE LET Set(before, r) ==
                 IF r.err # "" THEN r
                 ELSE [v |-> DictSet(before.v, entries[i].key, r.v),
                       err |-> ""]
             Before(before) ==
                 IF before.err # "" THEN before
                 ELSE Set(before, read_default_value(values, entries[i].val))
         IN Before(read_default_entries(values, entries, i - 1))

\* the loop over field_schema.fields, up to the i-th
read_default_fields(fields, default_value, i) ==
    IF i = 0 THEN [v |-> PyDict(<<>>), err |-> ""]
    ELSE LET json_val(got) ==
                 IF got.k = "none" THEN fields[i].default ELSE got
             Set(before, r) ==
                 IF r.err # "" THEN r
                 ELSE [v |-> DictSet(before.v, fields[i].name, r.v),
                       err |-> ""]
             Before(before, got) ==
                 IF before.err # "" THEN before
                 ELSE Set(before,
                          read_default_value(fields[i].type, json_val(got)))
         IN Before(read_default_fields(fields, default_value, i - 1),
                   DictGet(default_value, fields[i].name))

\* read_default_value: [v, err]
read_default_value(field_schema, default_value) ==
    LET Listed(items) ==
            IF items.err # "" THEN items
            ELSE [v |-> PyList(items.v), err |-> ""]
        Default(S, t) ==
          IF t = "null" THEN [v |-> PyNone, err |-> ""]
       ELSE IF t = "boolean"
       THEN [v |-> PyBool(Truthy(default_value)), err |-> ""]
       ELSE IF t \in {"int", "long"} THEN ToPyInt(default_value)
       ELSE IF t \in {"float", "double"} THEN ToPyFloat(default_value)
       ELSE IF t \in {"enum", "fixed", "string", "bytes"}
       THEN [v |-> default_value, err |-> ""]
       ELSE IF t = "array"
       THEN IF ~HasLen(default_value) THEN [v |-> PyNone, err |-> "TypeError"]
            ELSE Listed(read_default_items(S.items, Iter(default_value), 1))
       ELSE IF t = "map"
       THEN IF default_value.k # "dict"
            THEN [v |-> PyNone, err |-> "AttributeError"]
            ELSE read_default_entries(S.values, default_value.v,
                                      Len(default_value.v))
       ELSE IF IsUnionType(t)
       THEN IF S.schemas = <<>> THEN [v |-> PyNone, err |-> "IndexError"]
            ELSE read_default_value(S.schemas[1], default_value)
       ELSE IF t = "record"
       THEN IF S.fields = <<>> THEN [v |-> PyDict(<<>>), err |-> ""]
            ELSE IF default_value.k # "dict"
            THEN [v |-> PyNone, err |-> "AttributeError"]
            ELSE read_default_fields(S.fields, default_value, Len(S.fields))
       ELSE [v |-> PyNone, err |-> "AvroException"]
    IN Default(Schemas[field_schema], Schemas[field_schema].type)

read_union(writers_schema, readers_schema, s, p, c) ==
    LET Branch(schemas, index_of_schema, i) ==
            IF i = 0 THEN RRaise("SchemaResolution", index_of_schema.pos, c)
            ELSE read_data(schemas[i], readers_schema, s,
                           index_of_schema.pos, c)
        Indexed(schemas, index_of_schema) ==
            IF index_of_schema.err # "" THEN WithCache(index_of_schema, c)
            ELSE Branch(schemas, index_of_schema,
                        ListIndex(Len(schemas), index_of_schema.v.v))
    IN Indexed(Schemas[writers_schema].schemas, read_long(s, p))

\* fields_dict lookup: the position of the field named name, 0 when absent
FieldIndex(fields, name) ==
    LET At(found) == IF found = {} THEN 0 ELSE CHOOSE j \in found : TRUE
    IN At({j \in 1..Len(fields) : PyEq(fields[j].name, name)})

\* dict((field.name, read_data(field.type, field.type, decoder)) ...),
\* from the i-th field, added to acc
read_same_fields(fields, s, p, c, i, acc) ==
    IF i > Len(fields) THEN ROk(acc, p, c)
    ELSE LET Rest(r) ==
                 IF r.err # "" THEN r
                 ELSE read_same_fields(fields, s, r.pos, r.cache, i + 1,
                                       DictSet(acc, fields[i].name, r.v))
         IN Rest(read_data(fields[i].type, fields[i].type, s, p, c))

\* a loop over the reader's fields instead: each field the writer has is
\* read where the cursor stands, nothing is skipped
RECURSIVE read_writers_fields_readers_order(_, _, _, _, _, _, _)
read_writers_fields_readers_order(w_fields, r_fields, s, p, c, i, acc) ==
    IF i > Len(r_fields) THEN ROk(acc, p, c)
    ELSE LET Kept(r) ==
                 IF r.err # "" THEN r
                 ELSE read_writers_fields_readers_order(
                          w_fields, r_fields, s, r.pos, r.cache, i + 1,
                          DictSet(acc, r_fields[i].name, r.v))
             Resolve(j) ==
                 IF j = 0
                 THEN read_writers_fields_readers_order(w_fields, r_fields, s,
                                                        p, c, i + 1, acc)
                 ELSE Kept(read_data(w_fields[j].type, r_fields[i].type,
                                     s, p, c))
         IN Resolve(FieldIndex(w_fields, r_fields[i].name))

\* the loop over writers_schema.fields, from the i-th: a field the reader
\* has is read and kept, any other is skipped
read_writers_fields(w_fields, r_fields, s, p, c, i, acc) ==
    IF i > Len(w_fields) THEN ROk(acc, p, c)
    ELSE LET Skipped(k) ==
                 IF k.err # "" THEN WithCache(k, c)
                 ELSE read_writers_fields(w_fields, r_fields, s, k.pos, c,
                                          i + 1, acc)
             Kept(r) ==
                 IF r.err # "" THEN r
                 ELSE read_writers_fields(w_fields, r_fields, s, r.pos,
                                          r.cache, i + 1,
                                          DictSet(acc, w_fields[i].name, r.v))
             Resolve(j, k) ==
                 IF j = 0 THEN Skipped(k)
                 ELSE Kept(read_data(w_fields[i].type, r_fields[j].type,
                                     s, p, c))
         IN Resolve(FieldIndex(r_fields, w_fields[i].name),
                    skip_data(w_fields[i].type, s, p))

\* the loop over the reader's fields that leaves a field without a default
\* unset
fill_defaults_unset(r_fields, w_fields, i, acc) ==
    IF i > Len(r_fields) THEN [v |-> acc, err |-> ""]
    ELSE IF FieldIndex(w_fields, r_fields[i].name) # 0 \/ ~r_fields[i].has_default
    THEN fill_defaults(r_fields, w_fields, i + 1, acc)
    ELSE LET Filled(d) ==
                 IF d.err # "" THEN d
                 ELSE fill_defaults(r_fields, w_fields, i + 1,
                                    DictSet(acc, r_fields[i].name, d.v))
         IN Filled(read_default_value(r_fields[i].type, r_fields[i].default))

\* the loop over the reader's fields, from the i-th: [v, err]
fill_defaults(r_fields, w_fields, i, acc) ==
    IF i > Len(r_fields) THEN [v |-> acc, err |-> ""]
    ELSE IF FieldIndex(w_fields, r_fields[i].name) # 0
    THEN fill_defaults(r_fields, w_fields, i + 1, acc)
    ELSE IF ~r_fields[i].has_default
    THEN [v |-> PyNone, err |-> "SchemaResolution"]
    ELSE LET Filled(d) ==
                 IF d.err # "" THEN d
                 ELSE fill_defaults(r_fields, w_fields, i + 1,
                                    DictSet(acc, r_fields[i].name, d.v))
         IN Filled(read_default_value(r_fields[i].type, r_fields[i].default))

\* read_record that returns what the loop over the writer's fields read and
\* looks at no default
read_record_defaults_skipped(w_fields, r_fields, read) == read

\* read_record once the writer's fields are read: the reader's other fields
\* take their defaults
read_record_defaults(w_fields, r_fields, read) ==
    LET Filled(filled) ==
            IF filled.err # "" THEN RRaise(filled.err, read.pos, read.cache)
            ELSE ROk(filled.v, read.pos, read.cache)
    IN IF read.err # "" THEN read
       ELSE IF Len(r_fields) > Len(read.v.v)
       THEN Filled(fill_defaults(r_fields, w_fields, 1, read.v))
       ELSE read

read_record(writers_schema, readers_schema, s, p, c) ==
    IF readers_schema = writers_schema
    THEN read_same_fields(Schemas[writers_schema].fields, s, p, c, 1,
                          PyDict(<<>>))
    ELSE read_record_defaults(
             Schemas[writers_schema].fields, Schemas[readers_schema].fields,
             read_writers_fields(Schemas[writers_schema].fields,
                                 Schemas[readers_schema].fields, s, p, c, 1,
                                 PyDict(<<>>)))

\* the last of schemas, from the i-th, that the writer's schema matches
first_match_last(writers_schema, schemas, i, c) ==
    LET matching ==
            {j \in i..Len(schemas) :
                \/ writers_schema = schemas[j]
                \/ match_schema_uncached(writers_schema, schemas[j])}
    IN [index |-> IF matching = {} THEN 0
                  ELSE CHOOSE j \in matching : \A k \in matching : k <= j,
        cache |-> c]

\* the first of schemas, from the i-th, that the writer's schema matches:
\* its position (0 when none) and the cache afterwards
first_match(writers_schema, schemas, i, c) ==
    IF i > Len(schemas) THEN [index |-> 0, cache |-> c]
    ELSE LET Matched(m) ==
                 IF m.value THEN [index |-> i, cache |-> m.cache]
                 ELSE first_match(writers_schema, schemas, i + 1, m.cache)
         IN Matched(match_schema(writers_schema, schemas[i], c))

\* __type_to_decoder__[writers_schema.type]
type_to_decoder(t, writers_schema, readers_schema, s, p, c) ==
       IF t = "null" THEN WithCache(read_null(s, p), c)
       ELSE IF t = "boolean" THEN WithCache(read_boolean(s, p), c)
       ELSE IF t = "string" THEN WithCache(read_utf8(s, p), c)
       ELSE IF t = "int" THEN WithCache(read_int(s, p), c)
       ELSE IF t = "long" THEN WithCache(read_long(s, p), c)
       ELSE IF t = "float" THEN WithCache(read_float(s, p), c)
       ELSE IF t = "double" THEN WithCache(read_double(s, p), c)
       ELSE IF t = "bytes" THEN WithCache(read_bytes(s, p), c)
       ELSE IF t = "fixed" THEN read_fixed(writers_schema, readers_schema, s, p, c)
       ELSE IF t = "enum" THEN read_enum(writers_schema, readers_schema, s, p, c)
       ELSE IF t = "array" THEN read_array(writers_schema, readers_schema, s, p, c)
       ELSE IF t = "map" THEN read_map(writers_schema, readers_schema, s, p, c)
       ELSE IF IsUnionType(t)
       THEN read_union(writers_schema, readers_schema, s, p, c)
       ELSE read_record(writers_schema, readers_schema, s, p, c)

\* read_data without the refusal of schemas that do not match
read_data_matched_unchecked(W, R, writers_schema, readers_schema, s, p, m) ==
    LET Resolved(branch) ==
            IF branch.index = 0
            THEN RRaise("SchemaResolution", p, branch.cache)
            ELSE read_data(writers_schema, R.schemas[branch.index], s, p,
                           branch.cache)
    IN IF /\ readers_schema # writers_schema
          /\ ~IsUnionType(W.type)
          /\ IsUnionType(R.type)
       THEN Resolved(first_match(writers_schema, R.schemas, 1, m.cache))
       ELSE type_to_decoder(W.type, writers_schema, readers_schema, s, p,
                            m.cache)

\* read_data once the schemas are matched, m being what match_schema gave
read_data_matched(W, R, writers_schema, readers_schema, s, p, m) ==
    LET Resolved(branch) ==
            IF branch.index = 0
            THEN RRaise("SchemaResolution", p, branch.cache)
            ELSE read_data(writers_schema, R.schemas[branch.index], s, p,
                           branch.cache)
    IN IF readers_schema # writers_schema /\ ~m.value
       THEN RRaise("SchemaResolution", p, m.cache)
       ELSE IF /\ readers_schema # writers_schema
               /\ ~IsUnionType(W.type)
               /\ IsUnionType(R.type)
       THEN Resolved(first_match(writers_schema, R.schemas, 1, m.cache))
       ELSE type_to_decoder(W.type, writers_schema, readers_schema, s, p,
                            m.cache)

read_data(writers_schema, readers_schema, s, p, c) ==
    read_data_matched(Schemas[writers_schema], Schemas[readers_schema],
                      writers_schema, readers_schema, s, p,
                      match_schema(writers_schema, readers_schema, c))

(***************************************************************************)
(* Inputs of the leaf codec: around every power of two up to SampleBits     *)
(* bits, and alternating bit patterns of every length.                      *)
(***************************************************************************)
SampleBits == 64

Rep(b, k) == [i \in 1..k |-> b]

Alt(k) == [i \in 1..k |-> i % 2]

LongSamples ==
    UNION {{Norm(Rep(1, k) \o <<0>>), Norm(Rep(0, k) \o <<1, 0>>),
            Norm(Rep(0, k) \o <<1>>), Norm(Rep(1, k) \o <<0, 1>>),
            Norm(Alt(k) \o <<0>>), Norm(Alt(k) \o <<1>>)} : k \in 0..SampleBits}

Suffixes == {<<>>, <<129, 0>>}

NoResult == [op |-> "", err |-> "", val |-> PyNone]

Init ==
    /\ sink = <<>>
    /\ src = <<>>
    /\ pos = 0
    /\ pc = "idle"
    /\ reg = Zero
    /\ arg = PyNone
    /\ res = NoResult
    /\ dw_writers_schema = 0
    /\ dr_writers_schema = 0
    /\ dr_readers_schema = 0
    /\ cache = {}

(***************************************************************************)
(* BinaryEncoder.write_long, one step per turn of its loop.                 *)
(***************************************************************************)
WriteLongBegin(n) ==
    /\ pc = "idle"
    /\ arg' = PyInt(n)
    /\ reg' = ZigZag(n)
    /\ pc' = "write_long"
    /\ UNCHANGED <<sink, src, pos, res, slots>>

WriteLongLoop ==
    /\ pc = "write_long"
    /\ write_long_more(reg)
    /\ sink' = Append(sink, write_long_byte(reg))
    /\ reg' = Shr(reg, 7)
    /\ UNCHANGED <<src, pos, pc, arg, res, slots>>

WriteLongEnd ==
    /\ pc = "write_long"
    /\ ~write_long_more(reg)
    /\ sink' = Append(sink, chr(reg))
    /\ pc' = "written"
    /\ UNCHANGED <<src, pos, reg, arg, res, slots>>

\* BinaryDecoder(reader), the reader holding what was written and then suf
BinaryDecoderInit(suf) ==
    /\ pc = "written"
    /\ src' = sink \o suf
    /\ pos' = 0
    /\ pc' = "decoder"
    /\ UNCHANGED <<sink, reg, arg, res, slots>>

ReadLong ==
    /\ pc = "decoder"
    /\ LET r == read_long(src, pos)
       IN /\ res' = [op |-> "read_long", err |-> r.err, val |-> r.v]
          /\ pos' = r.pos
    /\ pc' = "done"
    /\ UNCHANGED <<sink, src, reg, arg, slots>>

NextCodec ==
    \/ \E n \in LongSamples : WriteLongBegin(n)
    \/ WriteLongLoop
    \/ WriteLongEnd
    \/ \E suf \in Suffixes : BinaryDecoderInit(suf)
    \/ ReadLong

SpecCodec == Init /\ [][NextCodec]_vars

\* the stepwise write_long writes what the operator write_long gives
StepwiseAgrees == pc = "written" /\ arg.k = "int" => sink = write_long(arg).out

(***************************************************************************)
(* Datums handed to DatumWriter.write: ints around the edges of the int     *)
(* and long ranges, floats that do and do not fit binary32, byte and        *)
(* unicode strings, and lists, dicts and records of at most MaxItems        *)
(* items.                                                                  *)
(***************************************************************************)
MaxItems == 2

Pow2(k) == Rep(0, k) \o <<1, 0>>

IntPool ==
    {Zero, <<1>> \o Rep(0, 52) \o <<1, 0>>}
        \cup UNION {{Pow2(k), Rep(1, k) \o <<0>>, Rep(0, k) \o <<1>>,
                     Rep(1, k) \o <<0, 1>>} : k \in {0, 6, 31, 63}}

\* 1.5, 1 + 2^-52, NaN, 2^128, -0.0
FloatPool ==
    { MkDouble(0, 1023, Rep0(51) \o <<1>>),
      MkDouble(0, 1023, <<1>> \o Rep0(51)),
      MkDouble(0, 2047, Rep0(51) \o <<1>>),
      MkDouble(0, 1151, Rep0(52)),
      MkDouble(1, 0, Rep0(52)) }

\* "", "hi", "\xc3", "A", u"B", u"\xe9", u"€"
TextPool ==
    { PyStr(<<>>), PyStr(<<104, 105>>), PyStr(<<195>>), PyStr(<<65>>),
      U(<<66>>), U(<<233>>), U(<<8364>>) }

\* the sequences of at most n members of pool
SeqsUpTo(pool, n) == UNION {[1..k -> pool] : k \in 0..n}

IntLists == {PyList(l) : l \in SeqsUpTo({PyInt(Zero), PyInt(MinusOne),
                                         PyInt(Rep(1, 31) \o <<0>>)}, MaxItems)}

NestedLists ==
    {PyList(l) : l \in SeqsUpTo({PyList(<<>>), PyList(<<PyInt(Zero)>>),
                                 PyList(<<PyInt(MinusOne), PyInt(Zero)>>)},
                                MaxItems)}

\* dicts with keys "a" and u"\xe9"
LongDicts ==
    {PyDict(e) : e \in
        {l \in SeqsUpTo({Entry(key, val) :
                            key \in {PyStr(<<97>>), U(<<233>>)},
                            val \in {PyInt(One), PyInt(Rep(1, 63) \o <<0>>)}},
                        MaxItems) :
            \A i, j \in 1..Len(l) : i # j => l[i].key # l[j].key}}

Seven == PyInt(<<1, 1, 1, 0>>)

\* dicts for the record schemas of the table
RecordPool ==
    { PyDict(<<Entry(PyStr(<<97>>), Seven)>>),
      PyDict(<<Entry(PyStr(<<122, 122>>), PyInt(One)),
               Entry(U(<<97>>), PyInt(MinusOne))>>),
      PyDict(<<Entry(PyStr(<<97>>), Seven), Entry(PyStr(<<98>>), U(<<66>>))>>),
      PyDict(<<Entry(PyStr(<<97>>), PyInt(One)),
               Entry(PyStr(<<99>>), PyInt(Pow2(40)))>>),
      PyDict(<<Entry(PyStr(<<120>>), PyStr(<<104, 105>>)),
               Entry(PyStr(<<97>>), Seven),
               Entry(PyStr(<<121>>), PyList(<<PyInt(One), PyInt(MinusOne)>>)),
               Entry(PyStr(<<98>>), U(<<120>>))>>),
      PyDict(<<Entry(PyStr(<<98>>), PyStr(<<65>>)),
               Entry(PyStr(<<122>>), U(<<233>>)),
               Entry(PyStr(<<121>>), PyTuple(<<>>)),
               Entry(PyStr(<<97>>), PyInt(MinusOne)),
               Entry(PyStr(<<120>>), PyStr(<<>>))>>),
      PyDict(<<Entry(PyStr(<<107>>), True),
               Entry(PyStr(<<108>>), PyInt(Rep(0, 63) \o <<1>>)),
               Entry(PyStr(<<102>>), PyFloat(MkDouble(0, 1023, Rep0(51) \o <<1>>))),
               Entry(PyStr(<<100>>), PyFloat(MkDouble(0, 1023, <<1>> \o Rep0(51)))),
               Entry(PyStr(<<113>>), PyStr(<<104, 105>>)),
               Entry(PyStr(<<101>>), PyStr(<<66>>)),
               Entry(PyStr(<<109>>), PyDict(<<Entry(PyStr(<<97>>), PyInt(One))>>)),
               Entry(PyStr(<<114>>), PyDict(<<Entry(PyStr(<<97>>), PyInt(Pow2(1)))>>)),
               Entry(PyStr(<<97>>), PyInt(Pow2(3)))>>) }

Datums ==
    {PyNone, True, False, PyTuple(<<PyInt(One)>>),
     PyDict(<<Entry(PyStr(<<97>>), PyList(<<PyInt(One)>>))>>)}
        \cup {PyInt(n) : n \in IntPool}
        \cup {PyFloat(f) : f \in FloatPool}
        \cup TextPool \cup IntLists \cup NestedLists \cup LongDicts
        \cup RecordPool

(***************************************************************************)
(* DatumWriter and DatumReader.                                            *)
(***************************************************************************)
\* DatumWriter(writers_schema), or set_writers_schema on a new DatumWriter
DatumWriterInit(writers_schema) ==
    /\ pc = "idle"
    /\ dw_writers_schema = 0
    /\ dw_writers_schema' = writers_schema
    /\ UNCHANGED <<sink, src, pos, pc, reg, arg, res, dr_writers_schema,
                   dr_readers_schema, cache>>

\* DatumWriter.write without its validation
DatumWriter_write_unchecked(writers_schema, datum) ==
    write_data(writers_schema, datum)

\* what DatumWriter.write(datum, encoder) does with writers_schema
DatumWriter_write(writers_schema, datum) ==
    IF ~validate(writers_schema, datum) THEN WErr(<<>>, "AvroType")
    ELSE write_data(writers_schema, datum)

DatumWriterWrite(datum) ==
    /\ pc = "idle"
    /\ dw_writers_schema # 0
    /\ LET Written(r) ==
               /\ sink' = sink \o r.out
               /\ res' = [op |-> "write", err |-> r.err, val |-> PyNone]
               /\ pc' = IF r.err = "" THEN "written" ELSE "failed"
       IN Written(DatumWriter_write(dw_writers_schema, datum))
    /\ arg' = datum
    /\ UNCHANGED <<src, pos, reg, slots>>

\* DatumReader(writers_schema, readers_schema) for the data the DatumWriter
\* wrote; readers_schema may be left None
DatumReaderInit(writers_schema, readers_schema) ==
    /\ pc = "decoder"
    /\ dr_writers_schema = 0
    /\ writers_schema = dw_writers_schema
    /\ dr_writers_schema' = writers_schema
    /\ dr_readers_schema' = readers_schema
    /\ UNCHANGED <<sink, src, pos, pc, reg, arg, res, dw_writers_schema, cache>>

\* DatumReader.read without the default for a readers_schema left None:
\* read_data is handed None and fails on its first attribute
DatumReader_read_no_default(writers_schema, readers_schema, s, p, c) ==
    IF readers_schema = 0 THEN RRaise("AttributeError", p, c)
    ELSE read_data(writers_schema, readers_schema, s, p, c)

\* DatumReader.read that resolves the writers_schema against itself
\* whatever readers_schema is stored
DatumReader_read_writers_both(writers_schema, readers_schema, s, p, c) ==
    read_data(writers_schema, writers_schema, s, p, c)

\* what DatumReader.read(decoder) returns: a readers_schema left None is
\* the writers_schema
DatumReader_read(writers_schema, readers_schema, s, p, c) ==
    read_data(writers_schema,
              IF readers_schema = 0 THEN writers_schema ELSE readers_schema,
              s, p, c)

\* DatumReader.read(decoder); res.given keeps the readers_schema the
\* DatumReader held when read was called
DatumReaderRead ==
    /\ pc = "decoder"
    /\ dr_writers_schema # 0
    /\ LET Read(r) ==
               /\ res' = [op |-> "read", err |-> r.err, val |-> r.v,
                          given |-> dr_readers_schema]
               /\ pos' = r.pos
               /\ cache' = r.cache
       IN Read(DatumReader_read(dr_writers_schema, dr_readers_schema, src,
                                pos, cache))
    /\ dr_readers_schema' = IF dr_readers_schema = 0 THEN dr_writers_schema
                            ELSE dr_readers_schema
    /\ pc' = "done"
    /\ UNCHANGED <<sink, src, reg, arg, dw_writers_schema, dr_writers_schema>>

Next ==
    \/ \E writers_schema \in SchemaIds : DatumWriterInit(writers_schema)
    \/ \E datum \in Datums : DatumWriterWrite(datum)
    \/ \E suf \in Suffixes : BinaryDecoderInit(suf)
    \/ \E writers_schema \in SchemaIds, readers_schema \in SchemaIds \cup {0} :
           DatumReaderInit(writers_schema, readers_schema)
    \/ DatumReaderRead

Spec == Init /\ [][Next]_vars

(***************************************************************************)
(* Properties of the leaf codec, under SpecCodec.                           *)
(***************************************************************************)

\* C2: for every n in [-2^63, 2^63-1], read_long on the bytes written by
\* write_long(n) returns n and stops exactly after those bytes, whatever
\* follows them; -1 is written as the single byte 0x01.
C2_ZigZagRoundTrip ==
    pc = "done" /\ res.op = "read_long" /\ InLong(arg.v) =>
        /\ res.err = ""
        /\ res.val = arg
        /\ pos = Len(sink)
        /\ (arg.v = MinusOne => sink = <<1>>)

\* -2^63 has been written as ten bytes and read back, bytes following it
C2_Witness ==
    /\ pc = "done"
    /\ res.op = "read_long"
    /\ arg.v = Rep(0, 63) \o <<1>>
    /\ res.val = arg
    /\ Len(sink) = 10
    /\ Len(src) > Len(sink)

\* C3: for every n in [-2^63, 2^63-1], write_long(n) ends after writing
\* between 1 and 10 bytes, every byte but the last with its high bit set and
\* the last with its high bit clear.  While the loop runs the value left is
\* not negative and has at most 64 - 7 * (bytes written) significant bits, so
\* the loop leaves after at most nine turns.
C3_VarintLength ==
    arg.k = "int" /\ InLong(arg.v) =>
        /\ pc = "write_long" =>
              /\ ~IsNeg(reg)
              /\ Len(sink) <= 9
              /\ Len(reg) - 1 <= Max(0, 64 - 7 * Len(sink))
        /\ pc = "written" =>
              /\ Len(sink) \in 1..10
              /\ \A i \in 1..(Len(sink) - 1) : sink[i] >= 128
              /\ sink[Len(sink)] < 128

\* a long has been written in ten bytes
C3_Witness ==
    /\ pc = "written"
    /\ arg.k = "int"
    /\ InLong(arg.v)
    /\ Len(sink) = 10

(***************************************************************************)
(* Properties of the schema directed writer and reader, under Spec.         *)
(***************************************************************************)

\* C4: DatumWriter.write validates the datum against writers_schema before
\* it encodes: when validate is false the write fails with the AvroType
\* error and the sink holds no byte.
C4_ValidateBeforeWrite ==
    res.op = "write" /\ ~validate(dw_writers_schema, arg) =>
        /\ res.err = "AvroType"
        /\ pc = "failed"
        /\ sink = <<>>

\* 2^31 was refused under the schema int (write_int itself would encode it)
C4_Witness ==
    /\ pc = "failed"
    /\ dw_writers_schema = 3
    /\ arg = PyInt(Pow2(31))
    /\ res.err = "AvroType"
    /\ sink = <<>>

\* C5: for a union schema and a datum that validates against at least one
\* branch, write puts zig-zag(i) first, i the smallest index of a branch the
\* datum validates against, and then what encoding the datum under branch i
\* puts, and nothing else.
C5_UnionSelection ==
    /\ res.op = "write"
    /\ IsUnionType(Schemas[dw_writers_schema].type)
    /\ validate(dw_writers_schema, arg)
    => LET schemas == Schemas[dw_writers_schema].schemas
           i == CHOOSE n \in 1..Len(schemas) :
                    /\ validate(schemas[n], arg)
                    /\ \A j \in 1..(n - 1) : ~validate(schemas[j], arg)
           under == write_data(schemas[i], arg)
       IN /\ sink = <<2 * (i - 1)>> \o under.out
          /\ res.err = under.err
          /\ read_long(sink, 0).v = PyInt(FromNat(i - 1))

\* 1 validates against both branches of [int, long] and went out as branch 0
C5_Witness ==
    /\ pc = "written"
    /\ dw_writers_schema = 15
    /\ arg = PyInt(One)
    /\ validate(3, arg) /\ validate(4, arg)
    /\ sink = <<0, 2>>

\* C10: the encoding of an array or map ends with a block count of zero; an
\* empty one is that zero count alone, a non-empty one is one positive count
\* equal to its length, its items, and the zero count; and reading it back
\* stops exactly after the terminating zero, whatever bytes follow.
C10_BlockFraming ==
    /\ dw_writers_schema # 0
    /\ Schemas[dw_writers_schema].type \in {"array", "map"}
    => LET S == Schemas[dw_writers_schema]
           n == Len(arg.v)
           items == IF S.type = "array" THEN write_items(S.items, arg.v, 1).out
                    ELSE write_entries(S.values, arg.v, 1).out
       IN /\ res.op = "write" /\ res.err = "" =>
                /\ sink[Len(sink)] = 0
                /\ n = 0 => sink = <<0>>
                /\ n > 0 => /\ sink = <<2 * n>> \o items \o <<0>>
                            /\ read_long(sink, 0).v = PyInt(FromNat(n))
          /\ res.op = "read" /\ dr_readers_schema = dw_writers_schema =>
                res.err = ""
          /\ res.op = "read" /\ res.err = "" =>
                /\ pos = Len(sink)
                /\ src[pos] = 0
                /\ IF S.type = "array" THEN Len(res.val.v) = n
                   ELSE \A e \in 1..n : HasKey(res.val, arg.v[e].key)

\* an array holding a non-empty and an empty array was read back up to its
\* terminating zero, other bytes following it
C10_Witness ==
    /\ pc = "done"
    /\ dw_writers_schema = 21
    /\ arg = PyList(<<PyList(<<PyInt(MinusOne), PyInt(Zero)>>), PyList(<<>>)>>)
    /\ sink = <<4, 4, 1, 0, 0, 0, 0>>
    /\ res.err = ""
    /\ pos = 7
    /\ Len(src) > 7

RECURSIVE TuplesAsLists(_)
TuplesAsLists(d) ==
    IF d.k \in {"list", "tuple"}
    THEN PyList([i \in 1..Len(d.v) |-> TuplesAsLists(d.v[i])])
    ELSE IF d.k = "dict"
    THEN PyDict([i \in 1..Len(d.v) |->
                    Entry(d.v[i].key, TuplesAsLists(d.v[i].val))])
    ELSE d

\* C7: when a record is decoded, a writer field whose name the reader's
\* record lacks is skipped: skip_data moves the cursor by exactly the length
\* of the field's encoding; and when the decode succeeds the field is not in
\* the result, every writer field the reader has is decoded to the value
\* written (a tuple comes back as a list), and the cursor ends after the
\* record.
C7_UnknownFieldSkipped ==
    /\ res.op = "read"
    /\ dr_readers_schema # dr_writers_schema
    /\ IsRecordType(Schemas[dr_writers_schema].type)
    /\ IsRecordType(Schemas[dr_readers_schema].type)
    => LET w_fields == Schemas[dr_writers_schema].fields
           r_fields == Schemas[dr_readers_schema].fields
           known(i) == \E j \in 1..Len(r_fields) :
                           r_fields[j].name = w_fields[i].name
           \* where the encoding of the i-th writer field begins
           begin(i) == Len(write_fields(SubSeq(w_fields, 1, i - 1), arg, 1).out)
       IN /\ \A i \in 1..Len(w_fields) :
                 ~known(i) =>
                     /\ skip_data(w_fields[i].type, src, begin(i)).err = ""
                     /\ skip_data(w_fields[i].type, src, begin(i)).pos
                            = begin(i + 1)
          /\ res.err = "" =>
                 /\ pos = Len(sink)
                 /\ \A i \in 1..Len(w_fields) :
                        IF known(i)
                        THEN PyEq(DictGet(res.val, w_fields[i].name),
                                  TuplesAsLists(DictGet(arg, w_fields[i].name)))
                        ELSE ~HasKey(res.val, w_fields[i].name)
          /\ dr_writers_schema \in {19, 22} /\ dr_readers_schema \in {16, 17}
                 => res.err = ""

\* bytes, an array and a union value were skipped around the two fields kept
C7_Witness ==
    /\ pc = "done"
    /\ dr_writers_schema = 19
    /\ dr_readers_schema = 17
    /\ sink = <<4, 104, 105, 14, 4, 2, 1, 0, 0, 2, 120>>
    /\ Len(src) > Len(sink)
    /\ res.err = ""
    /\ res.val = PyDict(<<Entry(U(<<97>>), Seven), Entry(U(<<98>>), U(<<120>>))>>)
    /\ pos = 11

\* C8: an enum written as index i, 0 <= i < len(writer.symbols), is decoded
\* by read_enum as writer.symbols[i] when the reader's symbols hold that
\* symbol, and the decode fails with SchemaResolution when they do not.
\* read_data hands a pair of enums to read_enum when their fullnames agree.
C8_EnumResolution ==
    /\ res.op = "read"
    /\ Schemas[dr_writers_schema].type = "enum"
    /\ Schemas[dr_readers_schema].type = "enum"
    /\ Schemas[dr_writers_schema].fullname = Schemas[dr_readers_schema].fullname
    => LET symbols == Schemas[dr_writers_schema].symbols
           i == sink[1] \div 2
       IN /\ sink = <<2 * i>>
          /\ i < Len(symbols)
          /\ PyEq(symbols[i + 1], arg)
          /\ IF \E j \in 1..Len(Schemas[dr_readers_schema].symbols) :
                    Schemas[dr_readers_schema].symbols[j] = symbols[i + 1]
             THEN res.err = "" /\ res.val = symbols[i + 1] /\ pos = 1
             ELSE res.err = "SchemaResolution"

\* B of [A, B, C] went out as the byte 2 and was refused by the reader [A, C]
C8_Witness ==
    /\ pc = "done"
    /\ dr_writers_schema = 10
    /\ dr_readers_schema = 11
    /\ arg = U(<<66>>)
    /\ sink = <<2>>
    /\ res.err = "SchemaResolution"

\* C9: what was written for an n of the 32-bit range under the schema int is
\* decoded under the reader's schema long, float or double without error to
\* a value numerically equal to n.
C9_NumericPromotion ==
    /\ res.op = "read"
    /\ Schemas[dr_writers_schema].type = "int"
    /\ Schemas[dr_readers_schema].type \in {"long", "float", "double"}
    => /\ InInt(AsInt(arg))
       /\ res.err = ""
       /\ IsNumber(res.val)
       /\ NumEq(res.val, arg)
       /\ pos = Len(sink)

\* 2^31 - 1 was written as an int and read under the reader's schema float
C9_Witness ==
    /\ pc = "done"
    /\ dr_writers_schema = 3
    /\ dr_readers_schema = 5
    /\ arg = PyInt(Rep(1, 31) \o <<0>>)
    /\ res.err = ""
    /\ NumEq(res.val, arg)

RECURSIVE RoundTripEq(_, _)
\* d2 == d, with the order of dict keys ignored and a key of d2 that d lacks
\* allowed when its value is None
RoundTripEq(d, d2) ==
    IF d.k = "dict" /\ d2.k = "dict"
    THEN /\ \A i \in 1..Len(d.v) :
                /\ HasKey(d2, d.v[i].key)
                /\ RoundTripEq(d.v[i].val, DictGet(d2, d.v[i].key))
         /\ \A i \in 1..Len(d2.v) :
                HasKey(d, d2.v[i].key) \/ d2.v[i].val.k = "none"
    ELSE IF d.k \in {"list", "tuple"} /\ d2.k = d.k
    THEN /\ Len(d.v) = Len(d2.v)
         /\ \A i \in 1..Len(d.v) : RoundTripEq(d.v[i], d2.v[i])
    ELSE PyEq(d, d2)

\* C1: for every schema S and every datum d with validate(S, d) true,
\* DatumWriter(S).write(d) and then DatumReader(S).read on the bytes written
\* returns d2 with validate(S, d2) true and d2 equal to d (map key order
\* ignored, a missing record field read back as null), and the read
\* consumes exactly the bytes that were written.
C1_RoundTrip ==
    /\ res.op = "write" /\ validate(dw_writers_schema, arg) => res.err = ""
    /\ res.op = "read" /\ dr_readers_schema = dr_writers_schema =>
           /\ res.err = ""
           /\ pos = Len(sink)
           /\ validate(dr_writers_schema, res.val)
           /\ RoundTripEq(arg, res.val)

(***************************************************************************)
(* Callers of match_schema.  The module's cache outlives every DatumReader; *)
(* the callers ask about the pairs of schemas of the table in the table's   *)
(* order, writers first, again and again from the start, and may ask about  *)
(* a pair a second time straight away.                                     *)
(***************************************************************************)
FirstPair == <<1, 1>>

\* the pair asked about after the pair p
NextPair(p) ==
    IF p[2] < Len(Schemas) THEN <<p[1], p[2] + 1>>
    ELSE IF p[1] < Len(Schemas) THEN <<p[1] + 1, 1>>
    ELSE FirstPair

\* the result of match_schema as the caller sees it; hit tells whether the
\* key was in the cache when it was asked for
MatchAsked(writers_schema, readers_schema, c, m) ==
    /\ res' = [op |-> "match_schema", err |-> "",
               val |-> IF m.value THEN True ELSE False,
               writers |-> writers_schema, readers |-> readers_schema,
               hit |-> InCache(c, writers_schema, readers_schema)]
    /\ cache' = m.cache

MatchSchema(writers_schema, readers_schema) ==
    /\ pc = "idle"
    /\ <<writers_schema, readers_schema>> =
           IF res.op = "match_schema"
           THEN NextPair(<<res.writers, res.readers>>) ELSE FirstPair
    /\ MatchAsked(writers_schema, readers_schema, cache,
               match_schema(writers_schema, readers_schema, cache))
    /\ UNCHANGED <<sink, src, pos, pc, reg, arg, dw_writers_schema,
                   dr_writers_schema, dr_readers_schema>>

\* the pair just asked about, asked about once more
MatchSchemaAgain ==
    /\ pc = "idle"
    /\ res.op = "match_schema"
    /\ ~res.hit
    /\ MatchAsked(res.writers, res.readers, cache,
               match_schema(res.writers, res.readers, cache))
    /\ UNCHANGED <<sink, src, pos, pc, reg, arg, dw_writers_schema,
                   dr_writers_schema, dr_readers_schema>>

NextMatch ==
    \/ \E writers_schema \in SchemaIds, readers_schema \in SchemaIds :
           MatchSchema(writers_schema, readers_schema)
    \/ MatchSchemaAgain

SpecMatch == Init /\ [][NextMatch]_vars

(***************************************************************************)
(* Properties of schema matching, under SpecMatch.                          *)
(***************************************************************************)
\* C11: match_schema(W, R) always returns what the uncached rule
\* __match_schema__ gives for (W, R): every entry of the cache holds the
\* uncached result for its key, there is one entry per key, and a value read
\* from the cache or computed again after the cache was cleared is that same
\* result.
C11_MatchCacheIdempotent ==
    /\ \A e \in cache : e[3] = match_schema_uncached(e[1], e[2])
    /\ \A e, f \in cache : e[1] = f[1] /\ e[2] = f[2] => e = f
    /\ Cardinality(cache) <= MATCH_SCHEMA_CACHE_MAX_LENGTH + 1
    /\ res.op = "match_schema" =>
           res.val = PyBool(match_schema_uncached(res.writers, res.readers))

\* (null, int) is asked about in a later round: its entry of the first round
\* went with a clear, it is in the cache again next to the last pairs of the
\* table, and asking once more is answered from the cache
C11_Witness ==
    /\ res.op = "match_schema"
    /\ res.writers = 1 /\ res.readers = 3
    /\ res.hit
    /\ res.val = False
    /\ <<1, 3, FALSE>> \in cache
    /\ \E e \in cache : e[1] = Len(Schemas)
    /\ Cardinality(cache) > 1

\* C22: the cache never holds more than MATCH_SCHEMA_CACHE_MAX_LENGTH + 1
\* entries; a call that misses and finds more than
\* MATCH_SCHEMA_CACHE_MAX_LENGTH entries leaves the new pair as the only
\* entry, a call that misses and finds that many or fewer adds the new
\* pair to the entries there were, and a call that does not miss leaves the
\* cache as it was.
C22_CacheCapacity ==
    [][LET entry == <<res'.writers, res'.readers, res'.val.v>>
           miss == res'.writers # res'.readers /\ ~res'.hit
       IN /\ Cardinality(cache') <= MATCH_SCHEMA_CACHE_MAX_LENGTH + 1
          /\ miss /\ Cardinality(cache) > MATCH_SCHEMA_CACHE_MAX_LENGTH
                 => cache' = {entry}
          /\ miss /\ Cardinality(cache) <= MATCH_SCHEMA_CACHE_MAX_LENGTH
                 => /\ cache' = cache \cup {entry}
                    /\ Cardinality(cache') = Cardinality(cache) + 1
          /\ ~miss => cache' = cache]_vars

\* (null, record 23) is the 22nd pair that missed: it found the 21 entries
\* of (null, boolean) .. (null, record 22) and is now the only entry
C22_Witness ==
    /\ res.op = "match_schema"
    /\ res.writers = 1 /\ res.readers = 23
    /\ ~res.hit
    /\ cache = {<<1, 23, FALSE>>}

\* C13: for schemas with different type tags, match_schema is true exactly
\* when one of the two is a union or an error_union, or (writer, reader) is
\* one of int->long, int->float, int->double, long->float, long->double,
\* float->double; the reverse of each promotion and every other pair of
\* different tags is false.
C13_CrossTagMatching ==
    res.op = "match_schema"
        /\ Schemas[res.writers].type # Schemas[res.readers].type =>
    LET w_type == Schemas[res.writers].type
        r_type == Schemas[res.readers].type
    IN res.val = PyBool(
           \/ w_type \in {"union", "error_union"}
           \/ r_type \in {"union", "error_union"}
           \/ w_type = "int" /\ r_type \in {"long", "float", "double"}
           \/ w_type = "long" /\ r_type \in {"float", "double"}
           \/ w_type = "float" /\ r_type = "double")

\* the reverse of int->long was asked about and refused
C13_Witness ==
    /\ res.op = "match_schema"
    /\ Schemas[res.writers].type = "long"
    /\ Schemas[res.readers].type = "int"
    /\ ~res.hit
    /\ res.val = False
    /\ <<res.writers, res.readers, FALSE>> \in cache

\* C16: for schemas with the same type tag, match_schema is true for record,
\* enum and error exactly when the fullnames are equal, for fixed exactly
\* when fullname and size are equal, for array and map exactly when the
\* type tags of the item schemas (value schemas) are equal, whatever lies
\* below them, and always for request, the primitive types, union and
\* error_union.
C16_SameTagMatching ==
    res.op = "match_schema"
        /\ Schemas[res.writers].type = Schemas[res.readers].type =>
    LET W == Schemas[res.writers]
        R == Schemas[res.readers]
    IN res.val = PyBool(
           CASE W.type \in {"record", "enum", "error"} ->
                    W.fullname = R.fullname
             [] W.type = "fixed" ->
                    W.fullname = R.fullname /\ W.size = R.size
             [] W.type = "array" ->
                    Schemas[W.items].type = Schemas[R.items].type
             [] W.type = "map" ->
                    Schemas[W.values].type = Schemas[R.values].type
             [] OTHER -> TRUE)

\* an array of arrays of int matched an array of arrays of string: the
\* item schemas are both arrays, and their items were not looked at
C16_Witness ==
    /\ res.op = "match_schema"
    /\ res.writers = 21 /\ res.readers = 32
    /\ Schemas[Schemas[Schemas[21].items].items].type = "int"
    /\ Schemas[Schemas[Schemas[32].items].items].type = "string"
    /\ res.val = True
    /\ <<21, 32, TRUE>> \in cache

(***************************************************************************)
(* Properties of DatumReader.read and read_data, under Spec.                *)
(***************************************************************************)
\* C12: when the DatumReader's readers_schema is None at the time read is
\* called, read sets it to the writers_schema and the datum is decoded with
\* the writer's schema on both sides: the result, the bytes consumed and
\* the error are those of read_data(writers_schema, writers_schema).
C12_ReadersSchemaDefaults ==
    res.op = "read" /\ res.given = 0 =>
        /\ dr_readers_schema = dr_writers_schema
        /\ LET Same(r) ==
                   /\ res.err = r.err
                   /\ res.val = r.v
                   /\ pos = r.pos
           IN Same(read_data(dr_writers_schema, dr_writers_schema, src, 0, {}))

\* the record of five fields was read back by a DatumReader that was given
\* no readers_schema
C12_Witness ==
    /\ pc = "done"
    /\ res.op = "read"
    /\ res.given = 0
    /\ dr_writers_schema = 19
    /\ dr_readers_schema = 19
    /\ res.err = ""
    /\ res.val.k = "dict"
    /\ pos = Len(sink)

\* C14: a read with schemas W and R that are not the same object and do
\* not match fails with SchemaResolution, returns no datum and consumes
\* nothing; the same refusal meets the pair of item schemas of an array
\* with an item, the pair of value schemas of a map with an entry, the pair
\* of types of a field that both records have, and the pair of the written
\* union branch and the reader's schema.
C14_MismatchFails ==
    res.op = "read" /\ dr_readers_schema # dr_writers_schema =>
    LET W == Schemas[dr_writers_schema]
        R == Schemas[dr_readers_schema]
        Differ(w, r) == w # r /\ ~match_schema_uncached(w, r)
        Refused == res.err = "SchemaResolution" /\ res.val = PyNone
    IN IF Differ(dr_writers_schema, dr_readers_schema)
       THEN Refused /\ pos = 0
       ELSE /\ W.type = "array" /\ R.type = "array" /\ Len(arg.v) > 0
                /\ Differ(W.items, R.items) => Refused
            /\ W.type = "map" /\ R.type = "map" /\ Len(arg.v) > 0
                /\ Differ(W.values, R.values) => Refused
            /\ IsRecordType(W.type) /\ R.type = W.type
                /\ (\E i \in 1..Len(W.fields), j \in 1..Len(R.fields) :
                        /\ W.fields[i].name = R.fields[j].name
                        /\ Differ(W.fields[i].type, R.fields[j].type))
                => Refused
            /\ IsUnionType(W.type)
                /\ Differ(W.schemas[sink[1] \div 2 + 1], dr_readers_schema)
                => Refused

\* a long was written and a reader with the schema int was refused
C14_Witness ==
    /\ pc = "done"
    /\ res.op = "read"
    /\ Schemas[dr_writers_schema].type = "long"
    /\ Schemas[dr_readers_schema].type = "int"
    /\ arg = PyInt(Pow2(31))
    /\ res.err = "SchemaResolution"
    /\ res.val = PyNone
    /\ pos = 0

\* C17: when the reader's schema is a union or error_union and the
\* writer's schema is not, the datum is decoded as read_data(W, B) decodes
\* it, B being the first branch of the reader's union, in the order of its
\* declaration, that W is or matches, and not a later one; when W matches
\* no branch the read fails with SchemaResolution.
C17_ReaderUnionFirstBranch ==
    /\ res.op = "read"
    /\ dr_readers_schema # dr_writers_schema
    /\ ~IsUnionType(Schemas[dr_writers_schema].type)
    /\ IsUnionType(Schemas[dr_readers_schema].type)
    => LET branches == Schemas[dr_readers_schema].schemas
           matching ==
               {i \in 1..Len(branches) :
                   \/ branches[i] = dr_writers_schema
                   \/ match_schema_uncached(dr_writers_schema, branches[i])}
           first == CHOOSE i \in matching : \A k \in matching : i <= k
           Same(r) == res.err = r.err /\ res.val = r.v /\ pos = r.pos
       IN IF matching = {}
          THEN res.err = "SchemaResolution" /\ res.val = PyNone /\ pos = 0
          ELSE Same(read_data(dr_writers_schema, branches[first], src, 0, {}))

\* the record {a: 7} of schema 16 was read with the reader's union of
\* the records 17 and 18: both match it by name, and the result is that of
\* the first, with the default of b (the second has no default for c)
C17_Witness ==
    /\ pc = "done"
    /\ res.op = "read"
    /\ dr_writers_schema = 16
    /\ dr_readers_schema = 36
    /\ Schemas[36].schemas = <<17, 18>>
    /\ match_schema_uncached(16, 17) /\ match_schema_uncached(16, 18)
    /\ res.err = ""
    /\ res.val = PyDict(<<Entry(U(<<97>>), Seven), Entry(U(<<98>>), U(<<120>>))>>)

(***************************************************************************)
(* A BinaryDecoder on bytes that no DatumWriter of this model wrote: every  *)
(* string of at most MaxWire bytes of WireBytes.  The bytes 0..7 are the    *)
(* longs 0, -1, 1, -2, 2, -3, 3, -4.                                        *)
(***************************************************************************)
MaxWire == 3

WireBytes == {0, 1, 2, 3, 4, 5, 6, 7, 65}

Wires == SeqsUpTo(WireBytes, MaxWire)

\* the (writers_schema, readers_schema) a DatumReader is given for them
WirePairs ==
    { <<7, 0>>, <<10, 0>>, <<10, 11>>, <<14, 0>>, <<14, 8>>, <<15, 4>>,
      <<25, 25>>, <<38, 26>> }

\* the schemas skip_data is called with
WireSkipped == {7, 14, 15, 25}

\* BinaryDecoder(reader), the reader holding wire
BinaryDecoderOpen(wire) ==
    /\ pc = "idle"
    /\ dw_writers_schema = 0
    /\ res = NoResult
    /\ src' = wire
    /\ pos' = 0
    /\ pc' = "decoder"
    /\ UNCHANGED <<sink, reg, arg, res, slots>>

\* decoder.read(n)
BinaryDecoderRead(n) ==
    /\ pc = "decoder"
    /\ dr_writers_schema = 0
    /\ LET Read(data) ==
               /\ res' = [op |-> "read_n", err |-> "", val |-> PyStr(data),
                          n |-> n]
               /\ pos' = pos + Len(data)
       IN Read(ReaderRead(src, pos, n))
    /\ pc' = "done"
    /\ UNCHANGED <<sink, src, reg, arg, slots>>

\* decoder.read_bytes()
BinaryDecoderReadBytes ==
    /\ pc = "decoder"
    /\ dr_writers_schema = 0
    /\ LET Read(r) ==
               /\ res' = [op |-> "read_bytes", err |-> r.err, val |-> r.v]
               /\ pos' = r.pos
       IN Read(read_bytes(src, pos))
    /\ pc' = "done"
    /\ UNCHANGED <<sink, src, reg, arg, slots>>

\* DatumReader(writers_schema, readers_schema); readers_schema may be None
DatumReaderOpen(writers_schema, readers_schema) ==
    /\ pc = "decoder"
    /\ dr_writers_schema = 0
    /\ dr_writers_schema' = writers_schema
    /\ dr_readers_schema' = readers_schema
    /\ UNCHANGED <<sink, src, pos, pc, reg, arg, res, dw_writers_schema, cache>>

\* skip_data(writers_schema, decoder)
SkipData(writers_schema) ==
    /\ pc = "decoder"
    /\ dr_writers_schema = 0
    /\ LET Skipped(r) ==
               /\ res' = [op |-> "skip_data", err |-> r.err, val |-> PyNone,
                          writers |-> writers_schema]
               /\ pos' = r.pos
       IN Skipped(skip_data(writers_schema, src, pos))
    /\ pc' = "done"
    /\ UNCHANGED <<sink, src, reg, arg, slots>>

NextWire ==
    \/ \E wire \in Wires : BinaryDecoderOpen(wire)
    \/ \E n \in 0..MaxWire + 1 : BinaryDecoderRead(n)
    \/ BinaryDecoderReadBytes
    \/ \E pair \in WirePairs : DatumReaderOpen(pair[1], pair[2])
    \/ DatumReaderRead
    \/ \E writers_schema \in WireSkipped : SkipData(writers_schema)

SpecWire == Init /\ [][NextWire]_vars

(***************************************************************************)
(* Properties of decoding arbitrary bytes, under SpecWire.                  *)
(***************************************************************************)
\* the long at the start of the source is a list index of a list of len
IndexInRange(len) ==
    LET In(n) == ~IsNeg(n) /\ Small(n) /\ ToInt(n) < len
    IN In(read_long(src, 0).v.v)

\* C15: decoder.read(n) returns exactly n bytes or fails with the Truncated
\* error; read_bytes, after it decoded a length L >= 0, returns exactly L
\* bytes, or fails with Truncated when fewer than L bytes are left in the
\* source, and never returns a shorter byte string.
C15_ExactRead ==
    /\ res.op = "read_n" =>
           \/ res.err = "" /\ Len(res.val.v) = res.n
           \/ res.err = "Truncated" /\ Len(src) < res.n
    /\ res.op = "read_bytes" /\ read_long(src, 0).err = ""
           /\ ~IsNeg(read_long(src, 0).v.v) =>
           LET L == ToInt(read_long(src, 0).v.v)
               left == Len(src) - read_long(src, 0).pos
           IN IF left >= L THEN res.err = "" /\ Len(res.val.v) = L
              ELSE res.err = "Truncated"

\* C18: decoding an enum whose index on the wire is not in
\* 0 .. len(W.symbols) - 1, every index below zero included, fails with
\* SchemaResolution and returns no symbol.
C18_EnumIndexRange ==
    /\ res.op = "read"
    /\ Schemas[dr_writers_schema].type = "enum"
    /\ read_long(src, 0).err = ""
    /\ ~IndexInRange(Len(Schemas[dr_writers_schema].symbols))
    => res.err = "SchemaResolution" /\ res.val = PyNone

\* C19: decoding a union whose branch index on the wire is not in
\* 0 .. len(W.schemas) - 1, every index below zero included, fails with
\* SchemaResolution; for an index i in that range the value is decoded as
\* read_data(W.schemas[i], R) decodes what follows the index.
C19_UnionIndexRange ==
    /\ res.op = "read"
    /\ IsUnionType(Schemas[dr_writers_schema].type)
    /\ read_long(src, 0).err = ""
    => LET schemas == Schemas[dr_writers_schema].schemas
           index == read_long(src, 0)
           Same(r) == res.err = r.err /\ res.val = r.v /\ pos = r.pos
       IN IF IndexInRange(Len(schemas))
          THEN Same(read_data(schemas[ToInt(index.v.v) + 1],
                              dr_readers_schema, src, index.pos, {}))
          ELSE res.err = "SchemaResolution" /\ res.val = PyNone

\* C20: skip_data on a union or error_union whose branch index on the wire
\* is not in 0 .. len(W.schemas) - 1 fails with SchemaResolution, the kind
\* the read path reports, and with no other error, also when the union is
\* the type of a writer's field that the reader's record lacks.
C20_SkipUnionIndexRange ==
    /\ /\ res.op = "skip_data"
       /\ IsUnionType(Schemas[res.writers].type)
       /\ read_long(src, 0).err = ""
       /\ ~IndexInRange(Len(Schemas[res.writers].schemas))
       => res.err = "SchemaResolution"
    /\ /\ res.op = "read"
       /\ dr_writers_schema = 38 /\ dr_readers_schema = 26
       /\ Schemas[38].fields[1].type = 14
       /\ \A j \in 1..Len(Schemas[26].fields) :
              Schemas[26].fields[j].name # Schemas[38].fields[1].name
       /\ read_long(src, 0).err = ""
       /\ ~IndexInRange(Len(Schemas[14].schemas))
       => res.err = "SchemaResolution"

(***************************************************************************)
(* The writer engine called directly: write_data(writers_schema, datum,     *)
(* encoder), which is also what DatumWriter.write_data passes on, with no   *)
(* validation before it.                                                   *)
(***************************************************************************)
WriteData(writers_schema, datum) ==
    /\ pc = "idle"
    /\ dw_writers_schema = 0
    /\ res = NoResult
    /\ LET Written(r) ==
               /\ sink' = sink \o r.out
               /\ res' = [op |-> "write_data", err |-> r.err, val |-> PyNone,
                          writers |-> writers_schema]
               /\ pc' = IF r.err = "" THEN "written" ELSE "failed"
       IN Written(write_data(writers_schema, datum))
    /\ arg' = datum
    /\ UNCHANGED <<src, pos, reg, slots>>

NextWriter ==
    \E writers_schema \in SchemaIds, datum \in Datums :
        WriteData(writers_schema, datum)

SpecWriter == Init /\ [][NextWriter]_vars

(***************************************************************************)
(* Properties of the writer engine, under SpecWriter.                       *)
(***************************************************************************)
\* C21: write_data with a union or error_union and a datum that validates
\* against none of its branches fails with the AvroType error, not with a
\* generic or unknown-type error, and writes no branch index.
C21_UnionNoBranchAvroType ==
    /\ res.op = "write_data"
    /\ IsUnionType(Schemas[res.writers].type)
    /\ \A i \in 1..Len(Schemas[res.writers].schemas) :
           ~validate(Schemas[res.writers].schemas[i], arg)
    => res.err = "AvroType" /\ sink = <<>>

(***************************************************************************)
(* Threads in match_schema.  Each of NumThreads threads calls match_schema  *)
(* again and again; a step of a thread is one operation on the dict         *)
(* __match_schema_cache__ (the lookup, len, clear, the store), each atomic, *)
(* and the steps of the threads interleave freely.  Here pc, arg and res    *)
(* are per thread: where the thread is in match_schema, the key of its      *)
(* call, and what its last call returned.  The cache at the start is empty  *)
(* or holds the 21 entries that the calls for (null, boolean) ..            *)
(* (null, record 22) leave in it.                                           *)
(***************************************************************************)
NumThreads == 2

Threads == 1..NumThreads

ThreadPairs == {<<3, 4>>, <<3, 2>>, <<1, 2>>, <<3, 3>>}

FullCache == {<<1, r, match_schema_uncached(1, r)>> : r \in 2..22}

\* the lookup with the writer's schema alone as the key
cache_get_by_writer(c, key) ==
    IF \E e \in c : e[1] = key[1]
    THEN [found |-> TRUE, value |-> (CHOOSE e \in c : e[1] = key[1])[3]]
    ELSE [found |-> FALSE, value |-> FALSE]

\* __match_schema_cache__[key]: the value, or KeyError (found is FALSE)
cache_get(c, key) ==
    IF InCache(c, key[1], key[2])
    THEN [found |-> TRUE,
          value |-> (CHOOSE e \in c : e[1] = key[1] /\ e[2] = key[2])[3]]
    ELSE [found |-> FALSE, value |-> FALSE]

\* __match_schema_cache__[key] = value
cache_set(c, key, value) ==
    {e \in c : e[1] # key[1] \/ e[2] # key[2]}
        \cup {<<key[1], key[2], value>>}

InitThreads ==
    /\ sink = <<>>
    /\ src = <<>>
    /\ pos = 0
    /\ reg = Zero
    /\ dw_writers_schema = 0
    /\ dr_writers_schema = 0
    /\ dr_readers_schema = 0
    /\ pc = [t \in Threads |-> "idle"]
    /\ arg = [t \in Threads |-> <<0, 0>>]
    /\ res = [t \in Threads |-> NoResult]
    /\ cache \in {{}, FullCache}

\* return value, from the call of thread t
ThreadReturn(t, value, hit) ==
    /\ res' = [res EXCEPT ![t] =
                  [op |-> "match_schema", err |-> "",
                   val |-> IF value THEN True ELSE False,
                   writers |-> arg[t][1], readers |-> arg[t][2],
                   hit |-> hit]]
    /\ pc' = [pc EXCEPT ![t] = "idle"]

\* match_schema(key[1], key[2]) is called: if writers_schema is
\* readers_schema, return True
ThreadCall(t, key) ==
    /\ pc[t] = "idle"
    /\ arg' = [arg EXCEPT ![t] = key]
    /\ IF key[1] = key[2]
       THEN /\ res' = [res EXCEPT ![t] =
                          [op |-> "match_schema", err |-> "", val |-> True,
                           writers |-> key[1], readers |-> key[2],
                           hit |-> FALSE]]
            /\ pc' = pc
       ELSE /\ pc' = [pc EXCEPT ![t] = "lookup"]
            /\ res' = res
    /\ UNCHANGED <<sink, src, pos, reg, slots>>

\* value = __match_schema_cache__[key]
ThreadLookup(t) ==
    /\ pc[t] = "lookup"
    /\ LET Got(g) ==
               IF g.found THEN ThreadReturn(t, g.value, TRUE)
               ELSE pc' = [pc EXCEPT ![t] = "len"] /\ res' = res
       IN Got(cache_get(cache, arg[t]))
    /\ UNCHANGED <<sink, src, pos, reg, arg, slots>>

\* if len(__match_schema_cache__) > MATCH_SCHEMA_CACHE_MAX_LENGTH
ThreadLen(t) ==
    /\ pc[t] = "len"
    /\ pc' = [pc EXCEPT ![t] =
                 IF Cardinality(cache) > MATCH_SCHEMA_CACHE_MAX_LENGTH
                 THEN "clear" ELSE "store"]
    /\ UNCHANGED <<sink, src, pos, reg, arg, res, slots>>

\* __match_schema_cache__.clear()
ThreadClear(t) ==
    /\ pc[t] = "clear"
    /\ cache' = {}
    /\ pc' = [pc EXCEPT ![t] = "store"]
    /\ UNCHANGED <<sink, src, pos, reg, arg, res, dw_writers_schema,
                   dr_writers_schema, dr_readers_schema>>

\* value = __match_schema__(*key); __match_schema_cache__[key] = value;
\* return value
ThreadStore(t) ==
    /\ pc[t] = "store"
    /\ LET Stored(value) ==
               /\ cache' = cache_set(cache, arg[t], value)
               /\ ThreadReturn(t, value, FALSE)
       IN Stored(match_schema_uncached(arg[t][1], arg[t][2]))
    /\ UNCHANGED <<sink, src, pos, reg, arg, dw_writers_schema,
                   dr_writers_schema, dr_readers_schema>>

NextThreads ==
    \E t \in Threads :
        \/ \E key \in ThreadPairs : ThreadCall(t, key)
        \/ ThreadLookup(t)
        \/ ThreadLen(t)
        \/ ThreadClear(t)
        \/ ThreadStore(t)

SpecThreads == InitThreads /\ [][NextThreads]_vars

(***************************************************************************)
(* Properties of match_schema under threads, under SpecThreads.             *)
(***************************************************************************)
\* C23: with the lookup, the length check, the clear and the store of
\* several threads in match_schema interleaved in any way, every call
\* returns what the uncached rule gives for its pair, and every entry of the
\* cache holds what the uncached rule gives for its key.
C23_ThreadsMatchUncached ==
    /\ \A e \in cache : e[3] = match_schema_uncached(e[1], e[2])
    /\ \A t \in Threads :
           res[t].op = "match_schema" =>
               res[t].val = PyBool(match_schema_uncached(res[t].writers,
                                                         res[t].readers))

\* thread 1 is between its clear of the full cache and its store of
\* (int, long); thread 2 asked for (null, boolean), whose entry went with
\* that clear, computed it again and stored it
C23_Witness ==
    /\ pc[1] = "store"
    /\ arg[1] = <<3, 4>>
    /\ res[2].op = "match_schema"
    /\ res[2].writers = 1 /\ res[2].readers = 2
    /\ ~res[2].hit
    /\ res[2].val = False
    /\ cache = {<<1, 2, FALSE>>}


(***************************************************************************)
(* Record resolution order.                                                *)
(***************************************************************************)
\* two record schemas that declare the same fields, in another order
PermutationOf(a, b) ==
    /\ a # b
    /\ IsRecordType(Schemas[a].type) /\ Schemas[b].type = Schemas[a].type
    /\ Schemas[b].fullname = Schemas[a].fullname
    /\ Len(Schemas[b].fields) = Len(Schemas[a].fields)
    /\ \A i \in 1..Len(Schemas[a].fields) :
           \E j \in 1..Len(Schemas[b].fields) :
               Schemas[b].fields[j] = Schemas[a].fields[i]
    /\ Schemas[b].fields # Schemas[a].fields

\* two dicts with the same keys bound to the same values, in any order
SameRecord(d, d2) ==
    /\ d.k = "dict" /\ d2.k = "dict"
    /\ Len(d.v) = Len(d2.v)
    /\ \A i \in 1..Len(d.v) :
           /\ HasKey(d2, d.v[i].key)
           /\ DictGet(d2, d.v[i].key) = d.v[i].val

\* C24: when a record written with the writer's record schema is read with
\* another record schema, the bytes are consumed in the writer's field
\* order: a field the reader has is decoded from the place where the
\* encodings of the writer's earlier fields end and the decoded record binds
\* its name to that value, a field the reader lacks is passed over, and the
\* reader's defaults are looked at only when all the writer's fields are
\* consumed (a reader field without default that the writer lacks fails the
\* read with the cursor at the end of the record); and a reader schema that
\* declares the same fields in another order gives the same outcome, the
\* same cursor and the same record.
C24_RecordResolutionOrder ==
    /\ res.op = "read"
    /\ dr_readers_schema # dr_writers_schema
    /\ IsRecordType(Schemas[dr_writers_schema].type)
    /\ IsRecordType(Schemas[dr_readers_schema].type)
    /\ match_schema_uncached(dr_writers_schema, dr_readers_schema)
    => LET w_fields == Schemas[dr_writers_schema].fields
           r_fields == Schemas[dr_readers_schema].fields
           begin(i) == Len(write_fields(SubSeq(w_fields, 1, i - 1), arg, 1).out)
           field(i) == read_data(w_fields[i].type,
                                 r_fields[FieldIndex(r_fields, w_fields[i].name)].type,
                                 src, begin(i), {})
           known == {i \in 1..Len(w_fields) :
                        FieldIndex(r_fields, w_fields[i].name) # 0}
           unset == {j \in 1..Len(r_fields) :
                        /\ FieldIndex(w_fields, r_fields[j].name) = 0
                        /\ ~r_fields[j].has_default}
       IN /\ res.err = "" =>
                 /\ pos = Len(sink)
                 /\ \A i \in known :
                        /\ field(i).err = ""
                        /\ field(i).pos = begin(i + 1)
                        /\ DictGet(res.val, w_fields[i].name) = field(i).v
          /\ (unset # {} /\ \A i \in known : field(i).err = "") =>
                 /\ res.err = "SchemaResolution"
                 /\ pos = Len(sink)
          /\ \A other \in SchemaIds :
                 PermutationOf(dr_readers_schema, other) =>
                     LET Same(r) == /\ r.err = res.err
                                    /\ r.pos = pos
                                    /\ res.err = "" => SameRecord(r.v, res.val)
                     IN Same(read_data(dr_writers_schema, other, src, 0, {}))

\* {a, c} written, read as {b = "x", a}: a decoded, c skipped, b defaulted
C24_Witness ==
    /\ res.op = "read" /\ res.err = ""
    /\ dr_writers_schema = 18 /\ dr_readers_schema = 41
    /\ PermutationOf(41, 17)
    /\ SameRecord(res.val,
                  PyDict(<<Entry(U(<<97>>), PyInt(One)),
                           Entry(U(<<98>>), U(<<120>>))>>))
    /\ pos = Len(sink) /\ Len(sink) > 1


(***************************************************************************)
(* Arrays and maps that arrive in several blocks.  The DatumWriter writes  *)
(* one block of positive count; the format lets an encoder split the items *)
(* into blocks, a block of negative count carrying its size in bytes.      *)
(* Here the sink is filled block by block from the items of arg, reg is    *)
(* the list of the counts written, and then the bytes are read or skipped. *)
(***************************************************************************)
MaxBlockItems == 3

\* array<int>, map<long>, array<array<int>>
BlockSchemas == {12, 13, 21}

BlockDatums(writers_schema) ==
    IF writers_schema = 12
    THEN {PyList(l) : l \in SeqsUpTo({PyInt(Zero), PyInt(MinusOne),
                                      PyInt(Pow2(6))}, MaxBlockItems)}
    ELSE IF writers_schema = 21
    THEN {PyList(l) : l \in SeqsUpTo({PyList(<<>>), PyList(<<PyInt(Zero)>>),
                                      PyList(<<PyInt(MinusOne), PyInt(Zero)>>)},
                                     MaxBlockItems)}
    ELSE {PyDict(e) : e \in
             {l \in SeqsUpTo({Entry(key, val) :
                                 key \in {PyStr(<<97>>), U(<<233>>),
                                          PyStr(<<107, 107>>)},
                                 val \in {PyInt(One), PyInt(Pow2(40))}},
                             MaxBlockItems) :
                 \A i, j \in 1..Len(l) : i # j => l[i].key # l[j].key}}

InitBlocks ==
    /\ sink = <<>>
    /\ src = <<>>
    /\ pos = 0
    /\ pc = "blocks"
    /\ reg = <<>>
    /\ dw_writers_schema \in BlockSchemas
    /\ arg \in BlockDatums(dw_writers_schema)
    /\ res = NoResult
    /\ dr_writers_schema = 0
    /\ dr_readers_schema = 0
    /\ cache = {}

RECURSIVE BlockItemsDone(_)
\* the number of items in the blocks of counts
BlockItemsDone(counts) ==
    IF counts = <<>> THEN 0
    ELSE (IF Head(counts) < 0 THEN 0 - Head(counts) ELSE Head(counts))
             + BlockItemsDone(Tail(counts))

\* the encoding of the n items after the first from items of datum
BlockBody(writers_schema, datum, from, n) ==
    IF Schemas[writers_schema].type = "map"
    THEN write_entries(Schemas[writers_schema].values,
                       SubSeq(datum.v, from + 1, from + n), 1).out
    ELSE write_items(Schemas[writers_schema].items,
                     SubSeq(datum.v, from + 1, from + n), 1).out

\* the encoder adds a block of the next n items: the count n, or the count
\* -n and the size of the items in bytes, and then the items
BlockWritten(n, sized) ==
    /\ pc = "blocks"
    /\ n \in 1..(Len(arg.v) - BlockItemsDone(reg))
    /\ LET Block(body) ==
               sink' = sink
                   \o (IF sized
                       THEN write_long_bytes(Neg(FromNat(n)))
                                \o write_long_bytes(FromNat(Len(body)))
                       ELSE write_long_bytes(FromNat(n)))
                   \o body
       IN Block(BlockBody(dw_writers_schema, arg, BlockItemsDone(reg), n))
    /\ reg' = Append(reg, IF sized THEN 0 - n ELSE n)
    /\ UNCHANGED <<src, pos, pc, arg, res, slots>>

\* the encoder ends the blocks with the count zero; a decoder is opened on
\* the bytes
BlocksEnd ==
    /\ pc = "blocks"
    /\ BlockItemsDone(reg) = Len(arg.v)
    /\ sink' = sink \o write_long_bytes(Zero)
    /\ src' = sink'
    /\ pos' = 0
    /\ pc' = "decoder"
    /\ UNCHANGED <<reg, arg, res, slots>>

NextBlocks ==
    \/ \E n \in 1..MaxBlockItems + 1, sized \in BOOLEAN : BlockWritten(n, sized)
    \/ BlocksEnd
    \/ \E readers_schema \in {0, dw_writers_schema} :
           DatumReaderOpen(dw_writers_schema, readers_schema)
    \/ DatumReaderRead
    \/ SkipData(dw_writers_schema)

SpecBlocks == InitBlocks /\ [][NextBlocks]_vars

\* C25: when the items of an array or a map arrive in any sequence of
\* blocks, a block of negative count -n being followed by the size in bytes
\* of its n items, the read succeeds, ends at the end of the bytes and
\* returns what it returns for the same items in one block of positive
\* count (the items that were encoded); and skip_data succeeds and leaves
\* the cursor where the full read leaves it, at the end of the bytes.
C25_NegativeCountBlocks ==
    /\ res.op = "read" =>
           LET Same(plain) ==
                   /\ res.err = "" /\ plain.err = ""
                   /\ res.val = plain.v
                   /\ PyEq(res.val, arg)
                   /\ pos = Len(src)
           IN Same(read_data(dr_writers_schema, dr_writers_schema,
                             write_data(dw_writers_schema, arg).out, 0, {}))
    /\ res.op = "skip_data" =>
           /\ res.err = ""
           /\ pos = Len(src)
           /\ pos = read_data(dw_writers_schema, dw_writers_schema, src, 0,
                              {}).pos

\* a map skipped whose first two entries came in a block of count -2 and
\* whose third came in a block of count 1
C25_Witness ==
    /\ res.op = "skip_data" /\ res.err = ""
    /\ dw_writers_schema = 13
    /\ reg = <<0 - 2, 1>>
    /\ Len(arg.v) = 3
    /\ pos = Len(src)

\* an array of arrays read whose blocks had the counts 1, -1 and -1
C25_WitnessRead ==
    /\ res.op = "read" /\ res.err = ""
    /\ dw_writers_schema = 21
    /\ reg = <<1, 0 - 1, 0 - 1>>
    /\ res.val = PyList(<<PyList(<<PyInt(Zero)>>), PyList(<<>>),
                          PyList(<<PyInt(MinusOne), PyInt(Zero)>>)>>)


(***************************************************************************)
(* skip_array step by step on arbitrary bytes: one step for the read of    *)
(* the first block count and one for each turn of the while loop.  reg is  *)
(* block_count, pos the position of the reader.  arg, which holds no datum *)
(* here, keeps for the properties the set of the pairs <<pos, block_count>> *)
(* with which a turn of the loop began.                                    *)
(***************************************************************************)
\* array<int>, array<string>
SkippedArrays == {12, 31}

\* the next state of the loop once r, the read of a block count, is done
SkipArrayCount(r) ==
    /\ pos' = r.pos
    /\ IF r.err # ""
       THEN /\ pc' = "raised"
            /\ res' = [op |-> "skip_array", err |-> r.err, val |-> PyNone]
            /\ reg' = reg
       ELSE /\ pc' = "loop"
            /\ res' = res
            /\ reg' = r.v.v

\* skip_array(writers_schema, decoder) is entered:
\* block_count = decoder.read_long(), before the loop
SkipArrayEnter(writers_schema) ==
    /\ pc = "decoder"
    /\ dr_writers_schema = 0
    /\ SkipArrayCount(read_long(src, pos))
    /\ dr_writers_schema' = writers_schema
    /\ arg' = {}
    /\ UNCHANGED <<sink, src, dw_writers_schema, dr_readers_schema, cache>>

\* a turn of the loop with block_count < 0: the block size is read and
\* skipped, then the next block count is read
SkipArraySized ==
    /\ pc = "loop"
    /\ IsNeg(reg)
    /\ LET Sized(size) ==
               IF size.err # "" THEN size ELSE skip(src, size.pos, size.v.v)
           Block(body) ==
               IF body.err # "" THEN body ELSE read_long(src, body.pos)
       IN SkipArrayCount(Block(Sized(read_long(src, pos))))
    /\ arg' = arg \cup {<<pos, reg>>}
    /\ UNCHANGED <<sink, src, slots>>

\* a turn of the loop with block_count > 0: the items are skipped one by
\* one, then the next block count is read
SkipArrayItems ==
    /\ pc = "loop"
    /\ ~IsNeg(reg) /\ reg # Zero
    /\ LET Block(body) ==
               IF body.err # "" THEN body ELSE read_long(src, body.pos)
       IN SkipArrayCount(Block(
              IF RangeFails(reg) THEN Raise("MemoryError", pos)
              ELSE skip_items(Schemas[dr_writers_schema].items, src, pos,
                              RangeLen(reg))))
    /\ arg' = arg \cup {<<pos, reg>>}
    /\ UNCHANGED <<sink, src, slots>>

\* block_count = 0: the loop ends and skip_array returns
SkipArrayReturn ==
    /\ pc = "loop"
    /\ reg = Zero
    /\ pc' = "returned"
    /\ res' = [op |-> "skip_array", err |-> "", val |-> PyNone]
    /\ UNCHANGED <<sink, src, pos, reg, arg, slots>>

NextSkipArray ==
    \/ \E wire \in Wires : BinaryDecoderOpen(wire)
    \/ \E writers_schema \in SkippedArrays : SkipArrayEnter(writers_schema)
    \/ SkipArraySized
    \/ SkipArrayItems
    \/ SkipArrayReturn

SpecSkipArray == Init /\ [][NextSkipArray]_vars

\* C26: on every finite byte source, malformed ones included, skip_data of
\* an array returns or raises after finitely many steps: the loop over the
\* blocks never begins a turn at a position and with a block count with
\* which it began an earlier turn (from there the loop, which depends on
\* nothing else, would repeat for ever).
C26_SkipArrayTerminates ==
    [][pc' = "loop" => <<pos', reg'>> \notin arg']_vars

\* C26: while an array is skipped the byte cursor never moves backwards.
C26_CursorNeverBackwards == [][pos' >= pos]_vars


(***************************************************************************)
(* One DatumReader used for several reads, its writers_schema assigned in  *)
(* between.  arg, which holds no datum here, keeps the calls made so far:  *)
(* the constructor, the assignments and the reads, in order.               *)
(***************************************************************************)
MaxCalls == 4

\* int, long, record {a: int}, record {a: int, c: long}
ReaderSchemas == {3, 4, 16, 18}

\* the int 7; the ints 1 and 2
ReaderWires == {<<14>>, <<2, 4>>}

\* DatumReader(writers_schema, readers_schema), either may be None
DatumReaderNew(writers_schema, readers_schema) ==
    /\ pc = "idle" /\ dw_writers_schema = 0 /\ res = NoResult
    /\ dr_writers_schema' = writers_schema
    /\ dr_readers_schema' = readers_schema
    /\ pc' = "reader"
    /\ arg' = <<[op |-> "init", writers |-> writers_schema,
                 readers |-> readers_schema]>>
    /\ UNCHANGED <<sink, src, pos, reg, res, dw_writers_schema, cache>>

\* datum_reader.writers_schema = writers_schema
set_writers_schema(writers_schema) ==
    /\ pc = "reader"
    /\ Len(arg) < MaxCalls
    /\ dr_writers_schema' = writers_schema
    /\ arg' = Append(arg, [op |-> "set", writers |-> writers_schema,
                           readers |-> 0])
    /\ UNCHANGED <<sink, src, pos, pc, reg, res, dw_writers_schema,
                   dr_readers_schema, cache>>

\* datum_reader.read(decoder), the decoder new on the bytes of wire
DatumReaderReadWire(wire) ==
    /\ pc = "reader"
    /\ Len(arg) < MaxCalls
    /\ dr_writers_schema # 0
    /\ LET Read(r) ==
               /\ res' = [op |-> "read", err |-> r.err, val |-> r.v,
                          given |-> dr_readers_schema]
               /\ pos' = r.pos
               /\ cache' = r.cache
       IN Read(DatumReader_read(dr_writers_schema, dr_readers_schema, wire,
                                0, cache))
    /\ dr_readers_schema' = IF dr_readers_schema = 0 THEN dr_writers_schema
                            ELSE dr_readers_schema
    /\ src' = wire
    /\ arg' = Append(arg, [op |-> "read", writers |-> 0, readers |-> 0])
    /\ UNCHANGED <<sink, pc, reg, dw_writers_schema, dr_writers_schema>>

NextReader ==
    \/ \E writers_schema, readers_schema \in ReaderSchemas \cup {0} :
           DatumReaderNew(writers_schema, readers_schema)
    \/ \E writers_schema \in ReaderSchemas : set_writers_schema(writers_schema)
    \/ \E wire \in ReaderWires : DatumReaderReadWire(wire)

SpecReader == Init /\ [][NextReader]_vars

RECURSIVE AssignedWriters(_, _)
\* the writers_schema last given to the DatumReader in the first n calls
AssignedWriters(calls, n) ==
    IF calls[n].op \in {"init", "set"} THEN calls[n].writers
    ELSE AssignedWriters(calls, n - 1)

\* the readers_schema the DatumReader is to hold after the calls:
\* the one given to the constructor, or else the writers_schema that was
\* current at the first read, or else None
StoredReaders(calls) ==
    LET reads == {n \in 1..Len(calls) : calls[n].op = "read"}
        first == CHOOSE n \in reads : \A m \in reads : n <= m
    IN IF calls[1].readers # 0 THEN calls[1].readers
       ELSE IF reads = {} THEN 0
       ELSE AssignedWriters(calls, first)

\* C27: over any sequence of reads and assignments of writers_schema, the
\* DatumReader holds the writers_schema last assigned (read never changes
\* it) and the readers_schema given to the constructor or, when that was
\* None, the writers_schema that was current at the first read, whatever was
\* assigned later; and each read returns what read_data gives for the
\* current writers_schema and that stored readers_schema.
C27_ReaderSlots ==
    pc = "reader" =>
        /\ dr_writers_schema = AssignedWriters(arg, Len(arg))
        /\ dr_readers_schema = StoredReaders(arg)
        /\ arg[Len(arg)].op = "read" =>
               LET Same(r) == /\ res.op = "read"
                              /\ res.err = r.err /\ res.val = r.v
                              /\ pos = r.pos
               IN Same(read_data(AssignedWriters(arg, Len(arg)),
                                 StoredReaders(arg), src, 0, {}))

\* DatumReader({a}), a read, writers_schema = {a, c}, a read of {a: 1, c: 2}:
\* the record is resolved against {a}, stored by the first read
C27_Witness ==
    /\ pc = "reader"
    /\ Len(arg) = 4
    /\ arg[1] = [op |-> "init", writers |-> 16, readers |-> 0]
    /\ arg[2].op = "read"
    /\ arg[3] = [op |-> "set", writers |-> 18, readers |-> 0]
    /\ arg[4].op = "read"
    /\ src = <<2, 4>>
    /\ dr_writers_schema = 18 /\ dr_readers_schema = 16
    /\ res.err = ""
    /\ res.val = PyDict(<<Entry(U(<<97>>), PyInt(One))>>)
    /\ res.val # read_data(18, 18, src, 0, {}).v


\* C28: whenever validate(writers_schema, datum) is true the encoding
\* completes without raising, so DatumWriter.write either writes the
\* complete encoding or, when it fails, leaves the sink as it was.
C28_ValidationSuffices ==
    res.op = "write" =>
        /\ validate(dw_writers_schema, arg) => res.err = ""
        /\ res.err # "" => sink = <<>>


\* C29: every datum a read returns, the bytes resolved from the writer's
\* schema to the reader's, is an instance of the reader's schema:
\* validate(readers_schema, datum) is true.
C29_OutputConformsToReader ==
    res.op = "read" /\ res.err = "" => validate(dr_readers_schema, res.val)


\* the keys of the dict d are exactly the names of fields, each once
KeysAre(d, fields) ==
    /\ d.k = "dict"
    /\ Len(d.v) = Len(fields)
    /\ \A i \in 1..Len(fields) : HasKey(d, fields[i].name)
    /\ \A i \in 1..Len(d.v) :
           \E j \in 1..Len(fields) : PyEq(fields[j].name, d.v[i].key)
    /\ \A i, j \in 1..Len(d.v) : PyEq(d.v[i].key, d.v[j].key) => i = j

=============================================================================
